---- MODULE Spec2Model ----
(***************************************************************************)
(* Model of edid-builder: the two ByteBlock serialization engines          *)
(* (src/src/edid_models.py and src/src/display_id_models.py) and the EDID  *)
(* and DisplayID structures built on them.                                 *)
(*                                                                         *)
(* Bytes are sequences over 0..255.  Python strings are sequences of       *)
(* one-character strings.  An operation that can raise returns a result    *)
(* record: ok, the bytes, and for a raised exception its class and the     *)
(* pieces of its message.  Byte offsets are 0-based as in the source;      *)
(* byte o of a serialization b is b[o+1].                                  *)
(***************************************************************************)
EXTENDS Integers, Sequences, FiniteSets, TLC

VARIABLES blk, edid, did, out, err, call, nmut, reads, defaults, objs

vars == <<blk, edid, did, out, err, call, nmut, reads, defaults, objs>>

(***************************************************************************)
(* Bounds of the model                                                     *)
(***************************************************************************)
MaxExtBlocks == 3
MaxMutations == 1

(***************************************************************************)
(* Python primitives                                                       *)
(***************************************************************************)
LSB8_BITMASK == 255
LSB4_BITMASK == 15

And8(v) == v % (LSB8_BITMASK + 1)
And4(v) == v % (LSB4_BITMASK + 1)

Ok(b) == [ok |-> TRUE, bytes |-> b, err |-> "", subject |-> "", index |-> -1, width |-> -1, actual |-> -1]
Raise(e) == [ok |-> FALSE, bytes |-> <<>>, err |-> e, subject |-> "", index |-> -1, width |-> -1, actual |-> -1]

\* sum(b), split in halves to keep the evaluation shallow
RECURSIVE sum(_)
sum(b) ==
    IF b = <<>> THEN 0
    ELSE IF Len(b) = 1 THEN b[1]
    ELSE sum(SubSeq(b, 1, Len(b) \div 2)) + sum(SubSeq(b, Len(b) \div 2 + 1, Len(b)))

bytes(n) == [i \in 1..n |-> 0]

RECURSIVE pow(_, _)
pow(b, n) == IF n = 0 THEN 1 ELSE b * pow(b, n - 1)

\* int.to_bytes(length): big-endian, OverflowError when negative or too big
to_bytes(v, length) ==
    IF v < 0 \/ v >= pow(256, length) THEN Raise("OverflowError")
    ELSE Ok([i \in 1..length |-> (v \div pow(256, length - i)) % 256])

\* A Python int too wide for the model checker's 32-bit integers is held as two 16-bit
\* limbs and a sign: the value is (hi * 65536 + lo), negated when neg.
Wide(neg, hi, lo) == [neg |-> neg, hi |-> hi, lo |-> lo]

\* wide <= 4294967294
wide_le_4294967294(v) == v.neg \/ v.hi < 65535 \/ (v.hi = 65535 /\ v.lo <= 65534)

\* wide.to_bytes(4)
wide_to_bytes4(v) ==
    IF (v.neg /\ (v.hi # 0 \/ v.lo # 0)) \/ v.hi > 65535 THEN Raise("OverflowError")
    ELSE Ok(to_bytes(v.hi, 2).bytes \o to_bytes(v.lo, 2).bytes)

reversed(b) == [i \in 1..Len(b) |-> b[Len(b) + 1 - i]]

hexdigits == <<"0","1","2","3","4","5","6","7","8","9","a","b","c","d","e","f","A","B","C","D","E","F">>
ascii_uppercase == <<"A","B","C","D","E","F","G","H","I","J","K","L","M","N","O","P","Q","R","S","T","U","V","W","X","Y","Z">>
ascii_lowercase == <<"a","b","c","d","e","f","g","h","i","j","k","l","m","n","o","p","q","r","s","t","u","v","w","x","y","z">>
digits == <<"0","1","2","3","4","5","6","7","8","9">>

IndexOf(s, c) == CHOOSE i \in DOMAIN s : s[i] = c
Chars(s) == {s[i] : i \in DOMAIN s}

all_hexdigits(str) == \A i \in DOMAIN str : str[i] \in Chars(hexdigits)

hexval(c) == LET i == IndexOf(hexdigits, c) IN IF i <= 16 THEN i - 1 ELSE i - 7

\* bytes.fromhex on a string of hex digits: ValueError on an odd digit count
fromhex(str) ==
    IF ~all_hexdigits(str) \/ Len(str) % 2 = 1 THEN Raise("ValueError")
    ELSE Ok([i \in 1..(Len(str) \div 2) |-> 16 * hexval(str[2 * i - 1]) + hexval(str[2 * i])])

isalpha(c) == c \in Chars(ascii_uppercase) \cup Chars(ascii_lowercase)
upper(c) == IF c \in Chars(ascii_lowercase) THEN ascii_uppercase[IndexOf(ascii_lowercase, c)] ELSE c
ord(c) ==
    IF c \in Chars(ascii_uppercase) THEN 64 + IndexOf(ascii_uppercase, c)
    ELSE IF c \in Chars(ascii_lowercase) THEN 96 + IndexOf(ascii_lowercase, c)
    ELSE IF c \in Chars(digits) THEN 47 + IndexOf(digits, c)
    ELSE IF c = " " THEN 32 ELSE IF c = "#" THEN 35 ELSE 63

\* format(n, '0<w>b') for n >= 0: the binary digits of n, left-padded to w
RECURSIVE format_b(_, _)
format_b(n, w) ==
    IF n < 2 /\ w <= 1 THEN <<n>> ELSE Append(format_b(n \div 2, w - 1), n % 2)

\* int(bits, 2)
RECURSIVE int2(_)
int2(bits) == IF bits = <<>> THEN 0 ELSE 2 * int2(SubSeq(bits, 1, Len(bits) - 1)) + bits[Len(bits)]

(***************************************************************************)
(* edid_models.py: EdidPropertyValue and ByteBlock                         *)
(***************************************************************************)
\* EdidPropertyValue.byte_range: a stored list is the range, a stored int n is [n, n+1]
byte_range(raw) == IF Len(raw) = 2 THEN raw ELSE <<raw[1], raw[1] + 1>>

\* An EdidPropertyValue as EdidProperty.__get__ builds it: the value's class, the
\* converter's result enc, the range; for a ByteBlock value its block_size, for a
\* list value the as_bytes result of every item.
Leaf(name, raw, cls, value, enc) ==
    [name |-> name, range |-> byte_range(raw), kind |-> "leaf", cls |-> cls, value |-> value,
     enc |-> enc, bsize |-> 0, items |-> <<>>]
Nested(name, raw, cls, enc, bsize) ==
    [name |-> name, range |-> byte_range(raw), kind |-> "block", cls |-> cls, value |-> 0,
     enc |-> enc, bsize |-> bsize, items |-> <<>>]
ListOf(name, raw, enc, items) ==
    [name |-> name, range |-> byte_range(raw), kind |-> "list", cls |-> "list", value |-> 0,
     enc |-> enc, bsize |-> 0, items |-> items]

\* EdidPropertyValue.block_size; -1 stands for the failed assertion / division by zero
EdidPropertyValue_block_size(p) ==
    IF p.kind = "list" THEN
        IF Len(p.items) = 0 \/ (p.range[2] - p.range[1]) % Len(p.items) # 0 THEN -1
        ELSE (p.range[2] - p.range[1]) \div Len(p.items)
    ELSE IF p.kind = "block" THEN p.bsize
    ELSE p.range[2] - p.range[1]

\* sorted(properties, key=byte_range[0]) (stable)
RECURSIVE sorted_insert(_, _)
sorted_insert(s, p) ==
    IF s = <<>> THEN <<p>>
    ELSE IF Head(s).range[1] <= p.range[1] THEN <<Head(s)>> \o sorted_insert(Tail(s), p)
    ELSE <<p>> \o s

RECURSIVE sorted_properties(_)
sorted_properties(props) ==
    IF props = <<>> THEN <<>>
    ELSE sorted_insert(sorted_properties(SubSeq(props, 1, Len(props) - 1)), props[Len(props)])

\* the list branch of as_bytes: every item checked against and padded to length
RECURSIVE emit_items(_, _, _, _)
emit_items(items, idx, length, acc) ==
    IF idx > Len(items) THEN Ok(acc)
    ELSE LET item == items[idx] IN
         IF ~item.res.ok THEN item.res
         ELSE IF Len(item.res.bytes) > length THEN
             [Raise("Exception") EXCEPT !.subject = item.cls, !.index = idx - 1]
         ELSE emit_items(items, idx + 1, length,
                         acc \o item.res.bytes \o bytes(length - Len(item.res.bytes)))

\* the body of the loop of as_bytes for one property
emit_prop(p, length) ==
    IF p.kind = "list" THEN emit_items(p.items, 1, length, <<>>)
    ELSE IF Len(p.enc.bytes) > length THEN
        [Raise("Exception") EXCEPT !.subject = p.cls, !.width = length, !.actual = Len(p.enc.bytes)]
    ELSE Ok(p.enc.bytes \o bytes(length - Len(p.enc.bytes)))

RECURSIVE emit_props(_, _)
emit_props(s, acc) ==
    IF s = <<>> THEN Ok(acc)
    ELSE LET r == emit_prop(Head(s), EdidPropertyValue_block_size(Head(s))) IN
         IF r.ok THEN emit_props(Tail(s), acc \o r.bytes) ELSE r

Min(S) == CHOOSE x \in S : \A y \in S : x <= y

\* ByteBlock.as_bytes: get_edid_props (every converter runs, the first to raise
\* ends it), sort, block sizes, then the loop
ByteBlock_as_bytes(props) ==
    LET bad == {i \in DOMAIN props : ~props[i].enc.ok}
        s == sorted_properties(props)
    IN IF bad # {} THEN props[Min(bad)].enc
       ELSE IF \E i \in DOMAIN s : EdidPropertyValue_block_size(s[i]) < 0 THEN Raise("AssertionError")
       ELSE emit_props(s, <<>>)

RECURSIVE sum_block_sizes(_)
sum_block_sizes(props) ==
    IF props = <<>> THEN 0
    ELSE EdidPropertyValue_block_size(Head(props)) + sum_block_sizes(Tail(props))

\* ByteBlock.block_size: get_edid_props, then the sum of the properties' block
\* sizes; -1 stands for an exception (a converter or a block size raising)
ByteBlock_block_size(props) ==
    IF \E i \in DOMAIN props : ~props[i].enc.ok \/ EdidPropertyValue_block_size(props[i]) < 0 THEN -1
    ELSE sum_block_sizes(props)

\* the default byte_converter, lambda x: x.to_bytes()
IntLeaf(name, raw, v) == Leaf(name, raw, "int", v, to_bytes(v, 1))

(***************************************************************************)
(* edid_models.py: Header                                                  *)
(***************************************************************************)
\* the assertions of Header.__init__
Header_init(a) ==
    /\ Len(a.manufacturer_id) = 3 /\ \A i \in 1..3 : isalpha(a.manufacturer_id[i])
    /\ all_hexdigits(a.product_code)
    /\ wide_le_4294967294(a.serial_num)
    /\ a.manufacture_week <= 255
    /\ a.manufacture_year <= 2245
    /\ Len(a.edid_version) = 3 /\ a.edid_version[2] = "."
    /\ a.edid_version[1] \in Chars(digits) /\ a.edid_version[3] \in Chars(digits)

manufacturer_id_bytes(value) ==
    to_bytes(int2(<<0>> \o format_b(ord(upper(value[1])) - 64, 5)
                        \o format_b(ord(upper(value[2])) - 64, 5)
                        \o format_b(ord(upper(value[3])) - 64, 5)), 2)

edid_version_bytes(value) == Ok(<<IndexOf(digits, value[1]) - 1, IndexOf(digits, value[3]) - 1>>)

Header_props(h) == <<
    Leaf("fixed_pattern", <<0, 8>>, "str", <<"0","0","F","F","F","F","F","F","F","F","F","F","F","F","0","0">>,
         fromhex(<<"0","0","F","F","F","F","F","F","F","F","F","F","F","F","0","0">>)),
    Leaf("manufacturer_id", <<8, 10>>, "str", h.manufacturer_id, manufacturer_id_bytes(h.manufacturer_id)),
    Leaf("product_code", <<10, 12>>, "str", h.product_code, fromhex(h.product_code)),
    Leaf("serial_num", <<12, 16>>, "int", h.serial_num, wide_to_bytes4(h.serial_num)),
    IntLeaf("manufacture_week", <<16>>, h.manufacture_week),
    Leaf("manufacture_year", <<17>>, "int", h.manufacture_year, to_bytes(h.manufacture_year - 1990, 1)),
    Leaf("edid_version", <<18, 20>>, "str", h.edid_version, edid_version_bytes(h.edid_version)) >>

(***************************************************************************)
(* edid_models.py: StandardTiming                                          *)
(***************************************************************************)
StandardTiming_init(a) ==
    /\ a.x_resolution >= 256
    /\ a.aspect_ratio \in {"16:10", "4:3", "5:4", "16:9"}
    /\ 60 <= a.vertical_freq /\ a.vertical_freq <= 123

StandardTiming_empty == [cls |-> "StandardTiming", x_resolution |-> 256, aspect_ratio |-> "16:10", vertical_freq |-> 61]

\* int(value / 8 - 31) truncates towards zero
x_resolution_bytes(value) ==
    to_bytes(And8(IF value >= 248 THEN (value - 248) \div 8 ELSE 0 - ((248 - value) \div 8)), 1)

\* a table with the codes of 5:4 and 16:9 exchanged
ar_lookup_exchanged(aspect_ratio) ==
    CASE aspect_ratio = "16:10" -> <<0, 0>>
      [] aspect_ratio = "4:3" -> <<0, 1>>
      [] aspect_ratio = "5:4" -> <<1, 1>>
      [] aspect_ratio = "16:9" -> <<1, 0>>

ar_lookup(aspect_ratio) ==
    CASE aspect_ratio = "16:10" -> <<0, 0>>
      [] aspect_ratio = "4:3" -> <<0, 1>>
      [] aspect_ratio = "5:4" -> <<1, 0>>
      [] aspect_ratio = "16:9" -> <<1, 1>>

vertical_timing_bytes(aspect_ratio, v_freq) ==
    IF aspect_ratio \notin {"16:10", "4:3", "5:4", "16:9"} THEN Raise("KeyError")
    ELSE IF v_freq < 60 THEN Raise("ValueError")
    ELSE to_bytes(int2(ar_lookup(aspect_ratio) \o format_b(v_freq - 60, 6)), 1)

StandardTiming_props(t) == <<
    Leaf("x_resolution", <<0>>, "int", t.x_resolution, x_resolution_bytes(t.x_resolution)),
    Leaf("vertical_timing", <<1>>, "dict", <<t.aspect_ratio, t.vertical_freq>>,
         vertical_timing_bytes(t.aspect_ratio, t.vertical_freq)) >>

(***************************************************************************)
(* edid_models.py: DetailedTimingDescriptor                                *)
(***************************************************************************)
\* the sync object's value property; DigitalSync.value reads an attribute
\* that __init__ never sets
sync_value(sync) ==
    IF sync.cls = "DigitalSeparateSync" THEN
        Ok(<<3 * 8 + sync.positive_vert_sync_polarity * 4 + sync.positive_hor_sync_polarity * 2>>)
    ELSE Raise("AttributeError")

DetailedTimingDescriptor_init(a) == 1 <= a.pixel_clock.x100 /\ a.pixel_clock.x100 <= 65535

\* (value * 100).to_bytes(2, 'little'); a float has no to_bytes
pixel_clock_bytes(value) ==
    IF value.float THEN Raise("AttributeError")
    ELSE LET r == to_bytes(value.x100, 2) IN IF r.ok THEN Ok(reversed(r.bytes)) ELSE r

hor_act_blank_msb(d) ==
    int2(SubSeq(format_b(And4(d.hor_pixels \div 256), 4), 1, 4)
         \o SubSeq(format_b(And4(d.hor_blnk_pixels \div 256), 4), 1, 4))

vert_act_blank_msb(d) == And4(d.vert_pixels \div 256) * 16 + And4(d.vert_blnk_pixels \div 256)

vert_porch_sync_lsb(d) == And4(d.vert_front_porch) * 16 + And4(d.vert_synch_pulse)

porch_sync_msb(d) ==
    ((d.hor_front_porch - And8(d.hor_front_porch)) \div 4)
    + ((d.hor_synch_pulse - And8(d.hor_synch_pulse)) \div 16)
    + ((d.vert_front_porch - And4(d.vert_front_porch)) \div 4)
    + ((d.vert_synch_pulse - And4(d.vert_synch_pulse)) \div 16)

image_size_msb(d) == And4(d.hor_size_mm \div 256) * 16 + And4(d.vert_size_mm \div 256)

features(d) ==
    LET s == sync_value(d.sync) IN
    IF ~s.ok THEN s
    ELSE to_bytes((IF d.interlaced THEN 128 ELSE 0) + d.stereo * 32 + s.bytes[1], 1)

DetailedTimingDescriptor_props(d) == <<
    Leaf("pixel_clock", <<0, 2>>, "int", d.pixel_clock, pixel_clock_bytes(d.pixel_clock)),
    Leaf("hor_pixels", <<2>>, "int", d.hor_pixels, to_bytes(And8(d.hor_pixels), 1)),
    Leaf("hor_blnk_pixels", <<3>>, "int", d.hor_blnk_pixels, to_bytes(And8(d.hor_blnk_pixels), 1)),
    IntLeaf("hor_act_blank_msb", <<4>>, hor_act_blank_msb(d)),
    Leaf("vert_pixels", <<5>>, "int", d.vert_pixels, to_bytes(And8(d.vert_pixels), 1)),
    Leaf("vert_blnk_pixels", <<6>>, "int", d.vert_blnk_pixels, to_bytes(And8(d.vert_blnk_pixels), 1)),
    IntLeaf("vert_act_blank_msb", <<7>>, vert_act_blank_msb(d)),
    Leaf("hor_front_porch", <<8>>, "int", d.hor_front_porch, to_bytes(And8(d.hor_front_porch), 1)),
    Leaf("hor_synch_pulse", <<9>>, "int", d.hor_synch_pulse, to_bytes(And8(d.hor_synch_pulse), 1)),
    IntLeaf("vert_porch_sync_lsb", <<10>>, vert_porch_sync_lsb(d)),
    IntLeaf("porch_sync_msb", <<11>>, porch_sync_msb(d)),
    IntLeaf("hor_size_mm", <<12>>, And8(d.hor_size_mm)),
    IntLeaf("vert_size_mm", <<13>>, And8(d.vert_size_mm)),
    IntLeaf("image_size_msb", <<14>>, image_size_msb(d)),
    IntLeaf("hor_border_pixels", <<15>>, d.hor_border_pixels),
    IntLeaf("vert_border_pixels", <<16>>, d.vert_border_pixels),
    Leaf("features", <<17>>, "int",
         (IF d.interlaced THEN 128 ELSE 0) + d.stereo * 32
         + (IF sync_value(d.sync).ok THEN sync_value(d.sync).bytes[1] ELSE 0),
         features(d)) >>

(***************************************************************************)
(* edid_models.py: MonitorDescriptor and its variants                      *)
(***************************************************************************)
DescriptorType(name) ==
    CASE name = "DUMMY" -> 16
      [] name = "MONITOR_NAME" -> 252
      [] name = "MONITOR_RANGE_LIMITS" -> 253
      [] name = "TEXT" -> 254
      [] name = "MONITOR_SERIAL_NUMBER" -> 255

MonitorDescriptor_props == << Leaf("monitor_descriptor_header", <<0, 3>>, "int", 0, to_bytes(0, 1)) >>

MonitorText_init(a) == Len(a.text) < 13

\* MonitorName and MonitorSerialNumber are MonitorText with their own type
MonitorText_type(cls) ==
    CASE cls = "MonitorName" -> "MONITOR_NAME"
      [] cls = "MonitorSerialNumber" -> "MONITOR_SERIAL_NUMBER"
      [] OTHER -> "TEXT"

text_bytes(value) ==
    Ok([i \in 1..Len(value) |-> ord(value[i])] \o <<10>> \o [i \in 1..(12 - Len(value)) |-> 32])

MonitorText_props(m) == <<
    Leaf("type", <<3>>, "DescriptorType", m.type, to_bytes(DescriptorType(m.type), 1)),
    IntLeaf("reserved", <<4>>, 0),
    Leaf("text", <<5, 18>>, "str", m.text, text_bytes(m.text)) >> \o MonitorDescriptor_props

ExtendedTimingInfoType(name) ==
    CASE name = "DEFAULT_GTF" -> 0
      [] name = "NONE" -> 1
      [] name = "SECONDARY_GTF" -> 2
      [] name = "CVT" -> 4

\* a << 3 + b << 2 + c << 1 + d: + binds tighter than <<
range_limit_offsets(m) ==
    m.hor_offset_max * pow(2, 3 + m.hor_offset_min) * pow(2, 2 + m.vert_offset_max) * pow(2, 1 + m.vert_offset_min)

\* video_timing_parameters is None in every modelled object
video_timing_parameters_bytes == Ok(<<10>> \o [i \in 1..6 |-> 32])

MonitorRangeLimits_props(m) == <<
    Leaf("type", <<3>>, "DescriptorType", "MONITOR_RANGE_LIMITS", to_bytes(DescriptorType("MONITOR_RANGE_LIMITS"), 1)),
    IntLeaf("range_limit_offsets", <<4>>, range_limit_offsets(m)),
    IntLeaf("vert_freq_min", <<5>>, m.vert_freq_min),
    IntLeaf("vert_freq_max", <<6>>, m.vert_freq_max),
    IntLeaf("hor_freq_min", <<7>>, m.hor_freq_min),
    IntLeaf("hor_freq_max", <<8>>, m.hor_freq_max),
    IntLeaf("pixel_clock_freq_max", <<9>>, m.pixel_clock_freq_max),
    Leaf("extended_timing_info_type", <<10>>, "ExtendedTimingInfoType", m.extended_timing_info_type,
         to_bytes(ExtendedTimingInfoType(m.extended_timing_info_type), 1)),
    Leaf("video_timing_parameters", <<11, 18>>, "NoneType", 0, video_timing_parameters_bytes) >>
    \o MonitorDescriptor_props

(***************************************************************************)
(* edid_models.py: BasicDisplayParameters and ChromaticityCoordinates      *)
(***************************************************************************)
\* AnalogueParameters.__init__: the object it leaves, serration forced true
\* when composite sync or sync on green is given
\* a constructor that leaves serration_on_vsync_pulse as it was given
AnalogueParameters_init_as_given(a) == a

AnalogueParameters_init(a) ==
    [a EXCEPT !.serration_on_vsync_pulse =
        IF (a.composite_sync_support \/ a.sync_on_green) /\ ~a.serration_on_vsync_pulse
        THEN TRUE ELSE a.serration_on_vsync_pulse]

int(b) == IF b THEN 1 ELSE 0

DigitalParameters_props(v) == <<
    IntLeaf("parameters_bitmap", <<0>>, 128 + v.bit_depth * 16 + v.interface) >>

AnalogueParameters_props(v) == <<
    IntLeaf("parameters_bitmap", <<0>>,
            v.white_sync_lvls * 32 + int(v.BTB) * 16 + int(v.separate_sync_support) * 8
            + int(v.composite_sync_support) * 4 + int(v.sync_on_green) * 2
            + int(v.serration_on_vsync_pulse)) >>

SupportedFeatures_props(f) == <<
    IntLeaf("feature_bitmap", <<0>>,
            int(f.dpms_standby) * 128 + int(f.dpms_suspend) * 64 + int(f.dpms_active_off) * 32
            + f.display_type * 8 + int(f.standard_srgb) * 4
            + int(f.dtd_block_1_is_preferred) * 2 + int(f.continuous_timings)) >>

BasicDisplayParameters_init(a) ==
    /\ 1 <= a.horizontal_size /\ a.horizontal_size <= 255
    /\ 1 <= a.vertical_size /\ a.vertical_size <= 255
    /\ 100 <= a.gamma /\ a.gamma <= 354

video_params_props(v) ==
    IF v.cls = "DigitalParameters" THEN DigitalParameters_props(v) ELSE AnalogueParameters_props(v)

\* gamma is held in hundredths; int((gamma - 1) * 100) for the gammas used (1.0, 2.2)
gamma_bytes(value) == to_bytes(value - 100, 1)

BasicDisplayParameters_props(b) == <<
    Nested("video_params", <<0>>, b.video_params.cls,
           ByteBlock_as_bytes(video_params_props(b.video_params)),
           ByteBlock_block_size(video_params_props(b.video_params))),
    IntLeaf("horizontal_size", <<1>>, b.horizontal_size),
    IntLeaf("vertical_size", <<2>>, b.vertical_size),
    Leaf("gamma", <<3>>, "float", b.gamma, gamma_bytes(b.gamma)),
    Nested("suported_features", <<4>>, "SupportedFeatures",
           ByteBlock_as_bytes(SupportedFeatures_props(b.suported_features)),
           ByteBlock_block_size(SupportedFeatures_props(b.suported_features))) >>

ChromaticityCoordinates_init(a) ==
    /\ all_hexdigits(a.red_green_lsb) /\ all_hexdigits(a.blue_white_lsb)
    /\ all_hexdigits(a.red_x_msb) /\ all_hexdigits(a.red_y_msb)
    /\ all_hexdigits(a.green_xy_msb) /\ all_hexdigits(a.blue_xy_msb) /\ all_hexdigits(a.white_xy_msb)

ChromaticityCoordinates_props(c) == <<
    Leaf("red_green_lsb", <<0>>, "str", c.red_green_lsb, fromhex(c.red_green_lsb)),
    Leaf("blue_white_lsb", <<1>>, "str", c.blue_white_lsb, fromhex(c.blue_white_lsb)),
    Leaf("red_x_msb", <<2>>, "str", c.red_x_msb, fromhex(c.red_x_msb)),
    Leaf("red_y_msb", <<3>>, "str", c.red_y_msb, fromhex(c.red_y_msb)),
    Leaf("green_xy_msb", <<4, 6>>, "str", c.green_xy_msb, fromhex(c.green_xy_msb)),
    Leaf("blue_xy_msb", <<6, 8>>, "str", c.blue_xy_msb, fromhex(c.blue_xy_msb)),
    Leaf("white_xy_msb", <<8, 10>>, "str", c.white_xy_msb, fromhex(c.white_xy_msb)) >>

(***************************************************************************)
(* The structures as objects: cls names the class, the other fields are    *)
(* the private attributes __init__ stores                                  *)
(***************************************************************************)
\* get_edid_props of an object, in edid_prop_names order (own class, then bases)
edid_props(o) ==
    CASE o.cls = "Header" -> Header_props(o)
      [] o.cls = "BasicDisplayParameters" -> BasicDisplayParameters_props(o)
      [] o.cls = "ChromaticityCoordinates" -> ChromaticityCoordinates_props(o)
      [] o.cls = "StandardTiming" -> StandardTiming_props(o)
      [] o.cls = "DetailedTimingDescriptor" -> DetailedTimingDescriptor_props(o)
      [] o.cls \in {"MonitorText", "MonitorName", "MonitorSerialNumber"} -> MonitorText_props(o)
      [] o.cls = "MonitorRangeLimits" -> MonitorRangeLimits_props(o)

as_bytes(o) == ByteBlock_as_bytes(edid_props(o))
block_size(o) == ByteBlock_block_size(edid_props(o))

\* the assertions of each constructor
init_accepts(o) ==
    CASE o.cls = "Header" -> Header_init(o)
      [] o.cls = "BasicDisplayParameters" -> BasicDisplayParameters_init(o)
      [] o.cls = "ChromaticityCoordinates" -> ChromaticityCoordinates_init(o)
      [] o.cls = "StandardTiming" -> StandardTiming_init(o)
      [] o.cls = "DetailedTimingDescriptor" -> DetailedTimingDescriptor_init(o)
      [] o.cls \in {"MonitorText", "MonitorName", "MonitorSerialNumber"} -> MonitorText_init(o)
      [] o.cls = "MonitorRangeLimits" -> TRUE

(***************************************************************************)
(* edid_models.py: BaseEDID                                                *)
(***************************************************************************)
\* reduce(lambda x, y: x + y, [item.as_bytes for item in value])
RECURSIVE reduce_bytes(_, _)
reduce_bytes(items, acc) ==
    IF items = <<>> THEN Ok(acc)
    ELSE IF ~Head(items).res.ok THEN Head(items).res
    ELSE reduce_bytes(Tail(items), acc \o Head(items).res.bytes)

items_of(value) == [i \in DOMAIN value |-> [cls |-> value[i].cls, res |-> as_bytes(value[i])]]

\* a converter that extends the list by one entry on every call
standard_timings_value_one_more(value) ==
    IF Len(value) < 8 THEN Append(value, StandardTiming_empty) ELSE value

\* the standard_timings byte_converter extends the list it is given, in place,
\* to 8 entries; the list the getter returns afterwards is the extended one
standard_timings_value(value) ==
    value \o [i \in 1..(8 - Len(value)) |-> StandardTiming_empty]

BaseEDID_props(e) ==
    LET st == items_of(standard_timings_value(e.standard_timings))
        ds == items_of(e.descriptors)
    IN <<
    Nested("header", <<0, 20>>, e.header.cls, as_bytes(e.header), block_size(e.header)),
    Nested("basic_display_parameters", <<20, 25>>, e.basic_display_parameters.cls,
           as_bytes(e.basic_display_parameters), block_size(e.basic_display_parameters)),
    Nested("chromaticity_coordinates", <<25, 35>>, e.chromaticity_coordinates.cls,
           as_bytes(e.chromaticity_coordinates), block_size(e.chromaticity_coordinates)),
    Leaf("established_timing", <<35, 38>>, "str", e.established_timing, fromhex(e.established_timing)),
    ListOf("standard_timings", <<38, 54>>, reduce_bytes(st, <<>>), st),
    ListOf("descriptors", <<54, 126>>,
           IF ds = <<>> THEN Raise("TypeError") ELSE reduce_bytes(ds, <<>>), ds),
    IntLeaf("num_ext_blocks", <<126>>, e.num_ext_blocks),
    IntLeaf("checksum", <<127>>, e.checksum) >>

BaseEDID_as_bytes(e) == ByteBlock_as_bytes(BaseEDID_props(e))
BaseEDID_block_size(e) == ByteBlock_block_size(BaseEDID_props(e))

\* self._checksum = 256 - edid_sum % 256
BaseEDID_checksum(edid_sum) == 256 - (edid_sum % 256)

\* BaseEDID.__init__ without the assertion on the first descriptor
BaseEDID_init_any_first_descriptor(a) ==
    LET sts == a.standard_timings.items
        ds == a.descriptors
        e0 == [cls |-> "BaseEDID", header |-> a.header,
               basic_display_parameters |-> a.basic_display_parameters,
               chromaticity_coordinates |-> a.chromaticity_coordinates,
               established_timing |-> a.established_timing,
               standard_timings |-> sts, descriptors |-> ds.items,
               num_ext_blocks |-> a.num_ext_blocks, checksum |-> 0]
        first == BaseEDID_as_bytes(e0)
    IN IF ~all_hexdigits(a.established_timing) THEN [ok |-> FALSE, err |-> "AssertionError", obj |-> e0]
       ELSE IF ~((\A i \in DOMAIN sts : sts[i].cls = "StandardTiming") /\ 1 <= Len(sts) /\ Len(sts) <= 8)
            THEN [ok |-> FALSE, err |-> "AssertionError", obj |-> e0]
       ELSE IF ~(ds.is_list /\ Len(ds.items) = 4) THEN [ok |-> FALSE, err |-> "AssertionError", obj |-> e0]
       ELSE IF ~first.ok THEN [ok |-> FALSE, err |-> first.err, obj |-> e0]
       ELSE [ok |-> TRUE, err |-> "",
             obj |-> [e0 EXCEPT !.standard_timings = standard_timings_value(sts),
                                !.checksum = BaseEDID_checksum(sum(first.bytes))]]

\* BaseEDID.__init__: the assertions, then the attributes, then the checksum
\* from the sum of as_bytes taken with the checksum at 0.  a.standard_timings
\* and a.descriptors are [is_list, items]; a non-list standard_timings is wrapped.
BaseEDID_init(a) ==
    LET sts == a.standard_timings.items
        ds == a.descriptors
        e0 == [cls |-> "BaseEDID", header |-> a.header,
               basic_display_parameters |-> a.basic_display_parameters,
               chromaticity_coordinates |-> a.chromaticity_coordinates,
               established_timing |-> a.established_timing,
               standard_timings |-> sts, descriptors |-> ds.items,
               num_ext_blocks |-> a.num_ext_blocks, checksum |-> 0]
        first == BaseEDID_as_bytes(e0)
    IN IF ~all_hexdigits(a.established_timing) THEN [ok |-> FALSE, err |-> "AssertionError", obj |-> e0]
       ELSE IF ~((\A i \in DOMAIN sts : sts[i].cls = "StandardTiming") /\ 1 <= Len(sts) /\ Len(sts) <= 8)
            THEN [ok |-> FALSE, err |-> "AssertionError", obj |-> e0]
       ELSE IF ~(ds.is_list /\ Len(ds.items) = 4) THEN [ok |-> FALSE, err |-> "AssertionError", obj |-> e0]
       ELSE IF ds.items[1].cls # "DetailedTimingDescriptor" THEN [ok |-> FALSE, err |-> "AssertionError", obj |-> e0]
       ELSE IF ~first.ok THEN [ok |-> FALSE, err |-> first.err, obj |-> e0]
       ELSE [ok |-> TRUE, err |-> "",
             obj |-> [e0 EXCEPT !.standard_timings = standard_timings_value(sts),
                                !.checksum = BaseEDID_checksum(sum(first.bytes))]]

(***************************************************************************)
(* edid_models.py: ByteBlock.data_at_position                              *)
(*                                                                         *)
(* The dict it returns nests one dict per structure entered; it is held    *)
(* flattened: levels are the 'byte', 'name' and 'range' of each dict from  *)
(* the outermost in, a name f'{prop}{block_num}' as name and index (index  *)
(* -1 for a plain name), and value is the innermost 'value'.               *)
(***************************************************************************)
Level(position, name, index, range) == [byte |-> position, name |-> name, index |-> index, range |-> range]

\* the innermost 'value': the property's value, or the string 'not found'
Value(p) == [found |-> TRUE, cls |-> p.cls, value |-> p.value]
NotFound == [found |-> FALSE, cls |-> "str", value |-> <<"n", "o", "t", " ", "f", "o", "u", "n", "d">>]

ReturnsDict(levels, value) == [kind |-> "dict", err |-> "", levels |-> levels, value |-> value]
ReturnsFalse == [kind |-> "False", err |-> "", levels |-> <<>>, value |-> NotFound]
Raises(e) == [kind |-> "raise", err |-> e, levels |-> <<>>, value |-> NotFound]

\* get_edid_props of any object of edid_models.py
edid_prop_values(o) ==
    CASE o.cls = "BaseEDID" -> BaseEDID_props(o)
      [] o.cls \in {"DigitalParameters", "AnalogueParameters"} -> video_params_props(o)
      [] o.cls = "SupportedFeatures" -> SupportedFeatures_props(o)
      [] OTHER -> edid_props(o)

\* getattr(self, prop).value for a property holding a structure or a list
prop_value(o, p) ==
    IF p.name = "standard_timings" THEN standard_timings_value(o[p.name]) ELSE o[p.name]

\* 'not prop_value' for the value of a leaf property: 0, 0.0, '' and None
\* are false, a dict with keys and an Enum member are true
not_value(p) ==
    CASE p.cls = "str" -> p.value = <<>>
      [] p.cls = "int" /\ p.name = "serial_num" -> p.value.hi = 0 /\ p.value.lo = 0
      [] p.cls = "int" /\ p.name = "pixel_clock" -> p.value.x100 = 0
      [] p.cls \in {"int", "float"} -> p.value = 0
      [] p.cls = "NoneType" -> TRUE
      [] OTHER -> FALSE

\* the dict returned around the result r of the data_at_position of a nested
\* structure: False becomes 'not found'
nested_result(level, r) ==
    IF r.kind = "raise" THEN r
    ELSE IF r.kind = "False" THEN ReturnsDict(<<level>>, NotFound)
    ELSE ReturnsDict(<<level>> \o r.levels, r.value)

RECURSIVE data_at_position(_, _)

\* a list branch that hands the element the offset within the list, not
\* within the element
list_item_at_position_not_rebased(o, p, position, size, depth) ==
    IF size < 0 THEN Raises("AssertionError")
    ELSE IF size = 0 THEN Raises("ZeroDivisionError")
    ELSE nested_result(Level(position, p.name, depth \div size, p.range),
                       data_at_position(prop_value(o, p)[(depth \div size) + 1], depth))

\* the list branch: block_num = floor(depth / size) for size the block_size of
\* the property, the item asked for depth - block_num * size
list_item_at_position(o, p, position, size, depth) ==
    IF size < 0 THEN Raises("AssertionError")
    ELSE IF size = 0 THEN Raises("ZeroDivisionError")
    ELSE nested_result(Level(position, p.name, depth \div size, p.range),
                       data_at_position(prop_value(o, p)[(depth \div size) + 1],
                                        depth - (depth \div size) * size))

\* the body of the loop for the property whose range holds the position
property_at_position(o, p, position) ==
    IF p.kind = "list" THEN
        list_item_at_position(o, p, position, EdidPropertyValue_block_size(p), position - p.range[1])
    ELSE IF p.kind = "block" THEN
        nested_result(Level(position, p.name, -1, p.range),
                      data_at_position(prop_value(o, p), position - p.range[1]))
    ELSE ReturnsDict(<<Level(position, p.name, -1, p.range)>>, IF not_value(p) THEN NotFound ELSE Value(p))

\* the loop over edid_prop_names: getattr runs the property's converter (an
\* exception of it ends the call), the first range holding the position wins
RECURSIVE properties_at_position(_, _, _, _)
properties_at_position(o, props, i, position) ==
    IF i > Len(props) THEN ReturnsFalse
    ELSE IF ~props[i].enc.ok THEN Raises(props[i].enc.err)
    ELSE IF props[i].range[1] <= position /\ position < props[i].range[2]
         THEN property_at_position(o, props[i], position)
    ELSE properties_at_position(o, props, i + 1, position)

data_at_position(o, position) == properties_at_position(o, edid_prop_values(o), 1, position)

(***************************************************************************)
(* display_id_models.py: EdidPropertyValue, EdidProperty and ByteBlock     *)
(***************************************************************************)
\* int.bit_length()
RECURSIVE bit_length(_)
bit_length(v) == IF v < 0 THEN bit_length(0 - v) ELSE IF v = 0 THEN 0 ELSE 1 + bit_length(v \div 2)

\* EdidProperty.__set__: an int (or the int a callable returns) is accepted when
\* (bit_length + 7) // 8 <= block_size
EdidProperty_set_accepts(v, size) == (bit_length(v) + 7) \div 8 <= size

\* the default byte_converter, lambda x: x.to_bytes(default_block_size)[::-1]
to_bytes_le(v, size) == LET r == to_bytes(v, size) IN IF r.ok THEN Ok(reversed(r.bytes)) ELSE r

\* An EdidPropertyValue with its value and range resolved: enc is
\* byte_converter(value), items the as_bytes result of every item of a list
DidLeaf(name, range, cls, enc) ==
    [name |-> name, range |-> byte_range(range), kind |-> "leaf", cls |-> cls, enc |-> enc, items |-> <<>>]
DidList(name, range, items) ==
    [name |-> name, range |-> byte_range(range), kind |-> "list", cls |-> "list", enc |-> Ok(<<>>), items |-> items]

\* EdidPropertyValue.block_size: a list is the sum of its items' block sizes
\* (each the length of the item's as_bytes), anything else the range width
RECURSIVE items_size(_)
items_size(items) ==
    IF items = <<>> THEN 0 ELSE Len(Head(items).res.bytes) + items_size(Tail(items))

DidPropertyValue_block_size(p) ==
    IF p.kind = "list" THEN items_size(p.items) ELSE p.range[2] - p.range[1]

\* the loop of as_bytes without the zero bytes for the gaps
RECURSIVE did_emit_props_no_gap(_, _, _)
did_emit_props_no_gap(s, last_prop_end, acc) ==
    IF s = <<>> THEN Ok(acc)
    ELSE LET p == Head(s)
             pad_length == p.range[1] - last_prop_end
             length == DidPropertyValue_block_size(p)
             r == IF p.kind = "list" THEN reduce_bytes(p.items, <<>>)
                  ELSE IF ~p.enc.ok THEN p.enc
                  ELSE IF Len(p.enc.bytes) > length THEN
                      [Raise("Exception") EXCEPT !.subject = p.cls, !.width = length,
                                                 !.actual = Len(p.enc.bytes)]
                  ELSE Ok(p.enc.bytes \o bytes(length - Len(p.enc.bytes)))
         IN IF pad_length < 0 THEN Raise("ValueError")
            ELSE IF ~r.ok THEN r
            ELSE did_emit_props_no_gap(Tail(s), p.range[2], acc \o r.bytes)

\* the loop of as_bytes: the gap before the property (bytes(n) raises ValueError
\* for a negative n), then the items of a list one after the other, or the
\* converted value checked against and padded to the block size
RECURSIVE did_emit_props(_, _, _)
did_emit_props(s, last_prop_end, acc) ==
    IF s = <<>> THEN Ok(acc)
    ELSE LET p == Head(s)
             pad_length == p.range[1] - last_prop_end
             length == DidPropertyValue_block_size(p)
             r == IF p.kind = "list" THEN reduce_bytes(p.items, <<>>)
                  ELSE IF ~p.enc.ok THEN p.enc
                  ELSE IF Len(p.enc.bytes) > length THEN
                      [Raise("Exception") EXCEPT !.subject = p.cls, !.width = length,
                                                 !.actual = Len(p.enc.bytes)]
                  ELSE Ok(p.enc.bytes \o bytes(length - Len(p.enc.bytes)))
         IN IF pad_length < 0 THEN Raise("ValueError")
            ELSE IF ~r.ok THEN r
            ELSE did_emit_props(Tail(s), p.range[2], acc \o bytes(pad_length) \o r.bytes)

\* ByteBlock.as_bytes of display_id_models.py: the properties in dict order,
\* sorted by range start, their block sizes (an item whose as_bytes raises ends
\* it here), then the loop
as_bytes_of_sorted(s) ==
    LET bad == {<<i, j>> \in (DOMAIN s) \X (1..16) : j \in DOMAIN s[i].items /\ ~s[i].items[j].res.ok}
    IN IF bad # {} THEN
           LET i == Min({b[1] : b \in bad}) IN s[i].items[Min({b[2] : b \in {c \in bad : c[1] = i}})].res
       ELSE did_emit_props(s, 0, <<>>)

DidByteBlock_as_bytes(props) == as_bytes_of_sorted(sorted_properties(props))

(***************************************************************************)
(* display_id_models.py: DisplayIDTimings.TypeVII and its Descriptor       *)
(***************************************************************************)
RECURSIVE gcd(_, _)
gcd(a, b) == IF b = 0 THEN a ELSE gcd(b, a % b)

\* DisplayIDTimings.aspect_ratio_bits; -1 stands for ZeroDivisionError
aspect_ratio_bits(width, height) ==
    LET denom == gcd(width, height) IN
    IF denom = 0 THEN -1
    ELSE LET ratio == <<width \div denom, height \div denom>> IN
         CASE ratio = <<1, 1>> -> 0
           [] ratio = <<5, 4>> -> 1
           [] ratio = <<4, 3>> -> 2
           [] ratio = <<15, 9>> -> 3
           [] ratio = <<16, 9>> -> 4
           [] ratio = <<16, 10>> -> 5
           [] ratio = <<64, 27>> -> 6
           [] ratio = <<256, 135>> -> 7
           [] OTHER -> 8

\* the lambdas Descriptor.__init__ stores in horizontal_offset / vertical_offset
offset_value(front_porch, sync_positive) ==
    (front_porch % 256) + ((front_porch % 32768) - (front_porch % 256)) + int(sync_positive) * 32768

\* the lambda stored in timing_options
timing_options_value(d) ==
    (aspect_ratio_bits(d.horizontal_active_pixels, d.vertical_active_pixels) % 16)
    + d.scanning_type * 16 + d.stereo_3d * 32 + int(d.preferred) * 128

\* pixel_byte_conversion: (x - 1).to_bytes(2)[::-1]
pixel_byte_conversion(x) == to_bytes_le(x - 1, 2)

\* (x - 1 & 0xFFFFFF).to_bytes(3)[::-1]
pixel_clock_conversion(x) == to_bytes_le((x - 1) % 16777216, 3)

\* Descriptor.__init__: every assignment to an EdidProperty passes __set__
Descriptor_init(a) ==
    /\ EdidProperty_set_accepts(a.pixel_clock, 3)
    /\ EdidProperty_set_accepts(a.horizontal_active_pixels, 2)
    /\ EdidProperty_set_accepts(a.horizontal_blank_pixels, 2)
    /\ EdidProperty_set_accepts(offset_value(a.horizontal_front_porch, a.horizontal_sync_positive), 2)
    /\ EdidProperty_set_accepts(a.horizontal_sync_width, 2)
    /\ EdidProperty_set_accepts(a.vertical_active_pixels, 2)
    /\ EdidProperty_set_accepts(a.vertical_blank_pixels, 2)
    /\ EdidProperty_set_accepts(offset_value(a.vertical_front_porch, a.vertical_sync_positive), 2)
    /\ EdidProperty_set_accepts(a.vertical_sync_width, 2)
    /\ aspect_ratio_bits(a.horizontal_active_pixels, a.vertical_active_pixels) >= 0
    /\ EdidProperty_set_accepts(timing_options_value(a), 1)

\* the edid_props dict of a Descriptor, in the order __init__ fills it
Descriptor_props(d) == <<
    DidLeaf("pixel_clock", <<0, 3>>, "int", pixel_clock_conversion(d.pixel_clock)),
    DidLeaf("horizontal_active_pixels", <<4, 6>>, "int", pixel_byte_conversion(d.horizontal_active_pixels)),
    DidLeaf("horizontal_blank_pixels", <<6, 8>>, "int", pixel_byte_conversion(d.horizontal_blank_pixels)),
    DidLeaf("horizontal_offset", <<8, 10>>, "int",
            pixel_byte_conversion(offset_value(d.horizontal_front_porch, d.horizontal_sync_positive))),
    DidLeaf("horizontal_sync_width", <<10, 12>>, "int", pixel_byte_conversion(d.horizontal_sync_width)),
    DidLeaf("vertical_active_pixels", <<12, 14>>, "int", pixel_byte_conversion(d.vertical_active_pixels)),
    DidLeaf("vertical_blank_pixels", <<14, 16>>, "int", pixel_byte_conversion(d.vertical_blank_pixels)),
    DidLeaf("vertical_offset", <<16, 18>>, "int",
            pixel_byte_conversion(offset_value(d.vertical_front_porch, d.vertical_sync_positive))),
    DidLeaf("vertical_sync_width", <<18, 20>>, "int", pixel_byte_conversion(d.vertical_sync_width)),
    DidLeaf("timing_options", <<3>>, "int",
            IF aspect_ratio_bits(d.horizontal_active_pixels, d.vertical_active_pixels) < 0
            THEN Raise("ZeroDivisionError") ELSE to_bytes_le(timing_options_value(d), 1)) >>

Descriptor_as_bytes(d) == DidByteBlock_as_bytes(Descriptor_props(d))

descriptor_items(value) ==
    [i \in DOMAIN value |-> [cls |-> "Descriptor", res |-> Descriptor_as_bytes(value[i])]]

\* TypeVII.__init__: the object it leaves; the range of timing_descriptors is
\* the list [3, 3 + block_size] computed once, here
TypeVII_init(revision, dsc_support, timing_descriptors) ==
    [cls |-> "TypeVII", revision |-> revision, dsc_support |-> dsc_support,
     timing_descriptors |-> timing_descriptors,
     timing_descriptors_range |-> <<3, 3 + items_size(descriptor_items(timing_descriptors))>>]

TypeVII_props_of(t, items) == <<
    DidLeaf("block_tag", <<0>>, "int", to_bytes_le(34, 1)),
    DidLeaf("revision_dsc_support", <<1>>, "int", to_bytes_le(int(t.dsc_support) * 4 + t.revision, 1)),
    DidList("timing_descriptors", t.timing_descriptors_range, items),
    DidLeaf("num_payload_bytes", <<2>>, "int", to_bytes_le(items_size(items), 1)) >>

TypeVII_props(t) == TypeVII_props_of(t, descriptor_items(t.timing_descriptors))

TypeVII_as_bytes(t) == DidByteBlock_as_bytes(TypeVII_props(t))

(***************************************************************************)
(* display_id_models.py: DisplayId                                         *)
(***************************************************************************)
ProductType == [EXTENSION_SECTION |-> 0, TEST_STRUCTURE |-> 1, DISPLAY_PANEL |-> 2,
                STANDALONE_DISPLAY |-> 3, TELEVISION_RECEIVER |-> 4, REPEATER |-> 5,
                DIRECT_DRIVE_MONITOR |-> 6]

SectionType == {"BASE_SECTION", "EXTENSION_SECTION", "EDID_EXTENSION_BLOCK"}

\* the byte ranges the two branches of the section_type setter assign; a
\* negative checksum stands for the callable lambda: data_blocks.byte_range[1],
\* and data_blocks for lambda: [n, n + data_blocks.block_size]
EmbeddedRanges == [revision |-> 1, length_of_block |-> 2, product_type |-> 3,
                   extension_count |-> 4, data_blocks |-> 5, checksum |-> 126]
StandaloneRanges == [revision |-> 0, length_of_block |-> 1, product_type |-> 2,
                     extension_count |-> 3, data_blocks |-> 4, checksum |-> 0 - 1]

data_block_items(value) ==
    [i \in DOMAIN value |-> [cls |-> "TypeVII", res |-> TypeVII_as_bytes(value[i])]]

\* str(x).replace('.', '')
replace_dot(str) == SelectSeq(str, LAMBDA c : c # ".")

\* the edid_props dict of a DisplayId in insertion order, callables evaluated;
\* items are the data blocks with their as_bytes
DisplayId_props_of(d, items) ==
    << DidLeaf("revision", <<d.range.revision>>, "float", fromhex(replace_dot(d.revision))),
       DidLeaf("length_of_block", <<d.range.length_of_block>>, "int",
               to_bytes_le(IF d.length_of_block.callable THEN items_size(items)
                           ELSE d.length_of_block.value, 1)),
       DidLeaf("product_type", <<d.range.product_type>>, "ProductType",
               to_bytes(ProductType[d.product_type], 1)),
       DidList("data_blocks", <<d.range.data_blocks, d.range.data_blocks + items_size(items)>>, items),
       DidLeaf("extension_count", <<d.range.extension_count>>, "int",
               to_bytes_le(IF d.init_section_type = "EDID_EXTENSION_BLOCK" THEN 0
                           ELSE Len(d.data_blocks), 1)),
       DidLeaf("checksum",
               <<IF d.range.checksum < 0 THEN d.range.data_blocks + items_size(items)
                 ELSE d.range.checksum>>,
               "int", to_bytes_le(d.checksum, 1)) >>
    \o (IF d.has_edid_props
        THEN << DidLeaf("edid_block_tag", <<0>>, "int", to_bytes_le(d.edid_block_tag, 1)),
                DidLeaf("edid_checksum", <<127>>, "int", to_bytes_le(d.edid_checksum, 1)) >>
        ELSE <<>>)

DisplayId_props(d) == DisplayId_props_of(d, data_block_items(d.data_blocks))

DisplayId_as_bytes(d) == DidByteBlock_as_bytes(DisplayId_props(d))

\* (256 - byte_sum % 256) % 256
DisplayId_checksum(byte_sum) == (256 - (byte_sum % 256)) % 256

\* the end of the EDID_EXTENSION_BLOCK branch: second is as_bytes with the tag,
\* the inner checksum and edid_checksum at 0; edid_checksum._value is set
\* from its sum
section_type_outer_checksum(d2, first, second) ==
    IF ~second.ok THEN [ok |-> FALSE, err |-> second.err, obj |-> d2, passes |-> <<first.bytes>>]
    ELSE [ok |-> TRUE, err |-> "",
          obj |-> [d2 EXCEPT !.edid_checksum = DisplayId_checksum(sum(second.bytes))],
          passes |-> <<first.bytes, second.bytes>>]

\* the object once checksum, edid_block_tag and edid_checksum are assigned
section_type_tagged(d1, first) ==
    [d1 EXCEPT !.checksum = DisplayId_checksum(sum(first.bytes)),
               !.has_edid_props = TRUE, !.edid_block_tag = 112, !.edid_checksum = 0]

\* the middle of the EDID_EXTENSION_BLOCK branch: first is as_bytes with the
\* checksum at 0; checksum, edid_block_tag and edid_checksum are set
section_type_inner_checksum(d1, first) ==
    IF ~first.ok THEN [ok |-> FALSE, err |-> first.err, obj |-> d1, passes |-> <<>>]
    ELSE section_type_outer_checksum(section_type_tagged(d1, first), first,
                                     DisplayId_as_bytes(section_type_tagged(d1, first)))

\* the EDID_EXTENSION_BLOCK branch, from the object with ranges, length_of_block
\* and checksum assigned
section_type_embedded(d1) == section_type_inner_checksum(d1, DisplayId_as_bytes(d1))

\* the other branch: length_of_block = lambda: data_blocks.block_size goes
\* through __set__, then the two EDID properties are popped
section_type_standalone(d1, items) ==
    IF \E i \in DOMAIN items : ~items[i].res.ok
    THEN [ok |-> FALSE, err |-> items[Min({i \in DOMAIN items : ~items[i].res.ok})].res.err,
          obj |-> d1, passes |-> <<>>]
    ELSE IF ~EdidProperty_set_accepts(items_size(items), 1)
    THEN [ok |-> FALSE, err |-> "AssertionError", obj |-> d1, passes |-> <<>>]
    ELSE [ok |-> TRUE, err |-> "",
          obj |-> [d1 EXCEPT !.length_of_block = [callable |-> TRUE, value |-> 0],
                             !.has_edid_props = FALSE],
          passes |-> <<>>]

\* the section_type setter assigning edid_block_tag and edid_checksum before
\* the first serialization
DisplayId_section_type_setter_tag_first(d, value) ==
    IF value = "EDID_EXTENSION_BLOCK" THEN
        section_type_embedded(
            [d EXCEPT !.section_type = value, !.range = EmbeddedRanges,
                      !.length_of_block = [callable |-> FALSE, value |-> 121],
                      !.checksum = 0,
                      !.has_edid_props = TRUE, !.edid_block_tag = 112, !.edid_checksum = 0])
    ELSE
        section_type_standalone([d EXCEPT !.section_type = value, !.range = StandaloneRanges],
                                data_block_items(d.data_blocks))

\* a section_type setter that keeps the checksum of the last assignment
\* while it sums the bytes
DisplayId_section_type_setter_checksum_kept(d, value) ==
    IF value = "EDID_EXTENSION_BLOCK" THEN
        section_type_embedded(
            [d EXCEPT !.section_type = value, !.range = EmbeddedRanges,
                      !.length_of_block = [callable |-> FALSE, value |-> 121]])
    ELSE
        section_type_standalone([d EXCEPT !.section_type = value, !.range = StandaloneRanges],
                                data_block_items(d.data_blocks))

\* the section_type setter: the object it leaves, the exception it raises if
\* any, and the serializations it took on the way (first, second)
DisplayId_section_type_setter(d, value) ==
    IF value = "EDID_EXTENSION_BLOCK" THEN
        section_type_embedded(
            [d EXCEPT !.section_type = value, !.range = EmbeddedRanges,
                      !.length_of_block = [callable |-> FALSE, value |-> 121],
                      !.checksum = 0])
    ELSE
        section_type_standalone([d EXCEPT !.section_type = value, !.range = StandaloneRanges],
                                data_block_items(d.data_blocks))

\* DisplayId.__init__: the six assignments with the default ranges, then the
\* section_type setter
DisplayId_init(a) ==
    IF ~EdidProperty_set_accepts(IF a.section_type = "EDID_EXTENSION_BLOCK" THEN 0 ELSE Len(a.data_blocks), 1)
    THEN [ok |-> FALSE, err |-> "AssertionError", obj |-> [cls |-> "None"], passes |-> <<>>]
    ELSE DisplayId_section_type_setter(
            [cls |-> "DisplayId", revision |-> a.revision,
             length_of_block |-> [callable |-> FALSE, value |-> 0],
             product_type |-> a.product_type, data_blocks |-> a.data_blocks,
             init_section_type |-> a.section_type, checksum |-> 0,
             section_type |-> "", range |-> [StandaloneRanges EXCEPT !.checksum = 5],
             has_edid_props |-> FALSE, edid_block_tag |-> 0, edid_checksum |-> 0],
            a.section_type)

(***************************************************************************)
(* Inputs: the arguments the constructors and setters are called with      *)
(***************************************************************************)
str_LNX == <<"L", "N", "X">>
str_ACR == <<"A", "C", "R">>
str_acr == <<"a", "c", "r">>
str_0000 == <<"0", "0", "0", "0">>
str_b106 == <<"b", "1", "0", "6">>
str_000000 == <<"0", "0", "0", "0", "0", "0">>
str_234800 == <<"2", "3", "4", "8", "0", "0">>

HeaderOf(m, p, s, w, y, v) ==
    [cls |-> "Header", manufacturer_id |-> m, product_code |-> p, serial_num |-> s,
     manufacture_week |-> w, manufacture_year |-> y, edid_version |-> v]

\* the header of simple_test.py and an Acer header
Header_LNX == HeaderOf(str_LNX, str_0000, Wide(FALSE, 0, 0), 5, 2012, <<"1", ".", "3">>)
Header_ACR == HeaderOf(str_ACR, str_b106, Wide(FALSE, 0, 145), 0, 1990, <<"1", ".", "4">>)

HeaderInputs ==
    {HeaderOf(m, p, s, w, y, <<"1", ".", "3">>) :
        m \in {str_LNX, str_acr},
        p \in {str_0000, str_b106, str_b106 \o <<"0", "0">>, <<"B">>},
        s \in {Wide(TRUE, 0, 1), Wide(FALSE, 0, 0), Wide(FALSE, 65535, 65534), Wide(FALSE, 65535, 65535)},
        w \in {5, 255, 256},
        y \in {1989, 1990, 2012, 2245, 2246}}

StandardTimingOf(x, ar, vf) ==
    [cls |-> "StandardTiming", x_resolution |-> x, aspect_ratio |-> ar, vertical_freq |-> vf]

StandardTimingInputs ==
    {StandardTimingOf(x, ar, vf) :
        x \in {255, 256, 1280, 1366, 3840},
        ar \in {"16:10", "4:3", "5:4", "16:9", "21:9"},
        vf \in {59, 60, 61, 123, 124}}

DigitalSeparateSync(v, h) ==
    [cls |-> "DigitalSeparateSync", positive_vert_sync_polarity |-> v, positive_hor_sync_polarity |-> h]
DigitalSync == [cls |-> "DigitalSync", positive_vert_sync_polarity |-> 0, positive_hor_sync_polarity |-> 0]

\* the defaults of DetailedTimingDescriptor.__init__ with the arguments that vary
DetailedTimingDescriptorOf(pc, hp, hb, vp, vb, border, il, stereo, sync) ==
    [cls |-> "DetailedTimingDescriptor", pixel_clock |-> pc,
     hor_pixels |-> hp, hor_blnk_pixels |-> hb, vert_pixels |-> vp, vert_blnk_pixels |-> vb,
     hor_front_porch |-> 176, hor_synch_pulse |-> 88, vert_front_porch |-> 8, vert_synch_pulse |-> 10,
     hor_size_mm |-> 1000, vert_size_mm |-> 562, hor_border_pixels |-> border, vert_border_pixels |-> 0,
     interlaced |-> il, stereo |-> stereo, sync |-> sync]

MHz(n) == [float |-> FALSE, x100 |-> n * 100]

DetailedTimingDescriptor_default ==
    DetailedTimingDescriptorOf(MHz(594), 3840, 560, 2160, 90, 0, FALSE, 0, DigitalSeparateSync(1, 1))

DetailedTimingDescriptorInputs ==
    {DetailedTimingDescriptorOf(pc, hp, 560, vp, 90, border, il, stereo, sync) :
        pc \in {MHz(594), MHz(0), [float |-> TRUE, x100 |-> 26292]},
        hp \in {3840, 4095}, vp \in {2160},
        border \in {0, 256}, il \in BOOLEAN, stereo \in {0, 1, 6},
        sync \in {DigitalSeparateSync(1, 1), DigitalSeparateSync(0, 1), DigitalSync}}
    \cup {DetailedTimingDescriptorOf(MHz(594), hp, hb, vp, vb, 0, FALSE, 0, DigitalSeparateSync(1, 1)) :
            hp \in {0, 255, 256, 4095}, hb \in {0, 560, 4095},
            vp \in {0, 2160, 4095}, vb \in {90, 256, 4095}}

MonitorTextOf(cls, text) == [cls |-> cls, type |-> MonitorText_type(cls), text |-> text]

str_Linux0 == <<"L", "i", "n", "u", "x", " ", "#", "0">>
str_3840x2160 == <<"3", "8", "4", "0", "x", "2", "1", "6", "0">>

MonitorTextInputs ==
    {MonitorTextOf(cls, text) :
        cls \in {"MonitorText", "MonitorName", "MonitorSerialNumber"},
        text \in {<<>>, str_Linux0, str_3840x2160, str_Linux0 \o <<"1", "2", "3", "4">>,
                  str_Linux0 \o <<"1", "2", "3", "4", "5">>}}

MonitorRangeLimitsOf(a, b, c, d, vmin, vmax, hmin, hmax, pclk, ext) ==
    [cls |-> "MonitorRangeLimits", hor_offset_max |-> a, hor_offset_min |-> b,
     vert_offset_max |-> c, vert_offset_min |-> d, vert_freq_min |-> vmin, vert_freq_max |-> vmax,
     hor_freq_min |-> hmin, hor_freq_max |-> hmax, pixel_clock_freq_max |-> pclk,
     extended_timing_info_type |-> ext]

MonitorRangeLimits_default == MonitorRangeLimitsOf(0, 0, 0, 0, 59, 61, 134, 136, 60, "DEFAULT_GTF")

\* the defaults, and the range limits of acer_test.py (hor_freq_max=510)
MonitorRangeLimitsInputs ==
    {MonitorRangeLimitsOf(a, b, c, d, 59, 61, 134, 136, 60, "DEFAULT_GTF") : a, b, c, d \in {0, 1}}
    \cup {MonitorRangeLimitsOf(0, 0, 0, 0, 24, 144, 10, 510, 107, "NONE")}

AnalogueParametersOf(w, btb, sep, comp, sog, serr) ==
    AnalogueParameters_init(
        [cls |-> "AnalogueParameters", white_sync_lvls |-> w, BTB |-> btb, separate_sync_support |-> sep,
         composite_sync_support |-> comp, sync_on_green |-> sog, serration_on_vsync_pulse |-> serr])

SupportedFeatures_default ==
    [cls |-> "SupportedFeatures", dpms_standby |-> TRUE, dpms_suspend |-> TRUE, dpms_active_off |-> TRUE,
     display_type |-> 1, standard_srgb |-> FALSE, dtd_block_1_is_preferred |-> TRUE,
     continuous_timings |-> FALSE]

BasicDisplayParametersOf(vp, hs, vs, g) ==
    [cls |-> "BasicDisplayParameters", video_params |-> vp, horizontal_size |-> hs, vertical_size |-> vs,
     gamma |-> g, suported_features |-> SupportedFeatures_default]

\* the display parameters of simple_test.py
BasicDisplayParameters_analogue ==
    BasicDisplayParametersOf(AnalogueParametersOf(3, FALSE, TRUE, TRUE, FALSE, TRUE), 100, 56, 220)

BasicDisplayParametersInputs ==
    {BasicDisplayParametersOf(vp, hs, 56, g) :
        vp \in {[cls |-> "DigitalParameters", bit_depth |-> 3, interface |-> 5],
                AnalogueParametersOf(3, FALSE, TRUE, TRUE, FALSE, FALSE)},
        hs \in {0, 100, 255, 256}, g \in {99, 100, 220}}

ChromaticityCoordinates_default ==
    [cls |-> "ChromaticityCoordinates", red_green_lsb |-> <<"5", "E">>, blue_white_lsb |-> <<"C", "0">>,
     red_x_msb |-> <<"A", "4">>, red_y_msb |-> <<"5", "9">>, green_xy_msb |-> <<"4", "A", "9", "8">>,
     blue_xy_msb |-> <<"2", "5", "2", "0">>, white_xy_msb |-> <<"5", "0", "5", "4">>]

ChromaticityCoordinatesInputs ==
    {[ChromaticityCoordinates_default EXCEPT !.red_green_lsb = r, !.white_xy_msb = w] :
        r \in {<<"5", "E">>, <<"5", "E", "0", "0">>, <<"5">>},
        w \in {<<"5", "0", "5", "4">>, <<"5", "0">>, <<>>}}

StandardTiming_1 == StandardTimingOf(3840, "16:9", 60)
StandardTiming_2 == StandardTimingOf(1280, "4:3", 60)

\* the list argument [is_list, items]: lists of 0..9 timings, a list holding a
\* non-StandardTiming, and a single StandardTiming passed without a list
StandardTimingsInputs ==
    {[is_list |-> TRUE, items |-> [i \in 1..k |-> IF i % 2 = 1 THEN StandardTiming_1 ELSE StandardTiming_2]] :
        k \in 0..9}
    \cup {[is_list |-> TRUE, items |-> <<StandardTiming_1, DetailedTimingDescriptor_default>>],
          [is_list |-> FALSE, items |-> <<StandardTiming_2>>]}

DescriptorsInputs ==
    LET dtd == DetailedTimingDescriptor_default
        sn == MonitorTextOf("MonitorSerialNumber", str_Linux0)
        rl == MonitorRangeLimits_default
        nm == MonitorTextOf("MonitorName", str_3840x2160)
    IN {[is_list |-> TRUE, items |-> <<dtd, sn, rl, nm>>],
        [is_list |-> TRUE, items |-> <<dtd, sn, rl>>],
        [is_list |-> TRUE, items |-> <<dtd, sn, rl, nm, nm>>],
        [is_list |-> TRUE, items |-> <<sn, dtd, rl, nm>>],
        [is_list |-> TRUE, items |-> <<>>],
        [is_list |-> FALSE, items |-> <<dtd>>]}

BaseEDIDInputs ==
    {[header |-> h, basic_display_parameters |-> BasicDisplayParameters_analogue,
      chromaticity_coordinates |-> ChromaticityCoordinates_default,
      standard_timings |-> st, descriptors |-> ds, num_ext_blocks |-> n, established_timing |-> et] :
        h \in {Header_LNX, Header_ACR}, st \in StandardTimingsInputs, ds \in DescriptorsInputs,
        n \in 0..MaxExtBlocks, et \in {str_000000, str_234800}}

(***************************************************************************)
(* State: blk is a structure built on its own, edid a BaseEDID, did a      *)
(* DisplayId, out the last value as_bytes returned, err the exception the  *)
(* last operation raised ("" for none), call the constructor call (for a   *)
(* DisplayId the last constructor or setter call, with the serializations  *)
(* the section_type setter took), nmut the number of setter calls made.    *)
(***************************************************************************)
NoObject == [cls |-> "None"]
NoCall == [op |-> "", args |-> <<>>]

\* the definition-time default arguments that are objects: the def statement
\* evaluates them once and every call without the argument receives the same one
Defaults ==
    [video_params |-> [cls |-> "DigitalParameters", bit_depth |-> 3, interface |-> 5],
     suported_features |-> SupportedFeatures_default,
     data_blocks |-> <<>>,
     timing_descriptors |-> <<>>]

\* the results of the reads of as_bytes made since the object was last
\* assigned to (the last two of them), kept per object in reads
last_two(rs, r) == IF Len(rs) < 2 THEN Append(rs, r) ELSE <<rs[2], r>>

Init ==
    /\ blk = NoObject /\ edid = NoObject /\ did = NoObject
    /\ out = Raise("unset") /\ err = "" /\ call = NoCall /\ nmut = 0
    /\ reads = [edid |-> <<>>, did |-> <<>>] /\ defaults = Defaults /\ objs = <<>>

\* a constructor of a structure of its own: the assertions, then the object
new(o) ==
    /\ blk.cls = "None" /\ call = NoCall
    /\ call' = [op |-> "new", args |-> o]
    /\ IF init_accepts(o) THEN blk' = o /\ err' = "" ELSE blk' = blk /\ err' = "AssertionError"
    /\ UNCHANGED <<reads, defaults, objs, edid, did, out, nmut>>

Header_new == \E o \in HeaderInputs : new(o)
StandardTiming_new == \E o \in StandardTimingInputs : new(o)
DetailedTimingDescriptor_new == \E o \in DetailedTimingDescriptorInputs : new(o)
MonitorText_new == \E o \in MonitorTextInputs : new(o)
MonitorRangeLimits_new == \E o \in MonitorRangeLimitsInputs : new(o)
BasicDisplayParameters_new == \E o \in BasicDisplayParametersInputs : new(o)
ChromaticityCoordinates_new == \E o \in ChromaticityCoordinatesInputs : new(o)

\* reading as_bytes of the structure
blk_as_bytes ==
    /\ blk.cls # "None"
    /\ out' = as_bytes(blk)
    /\ err' = out'.err
    /\ UNCHANGED <<reads, defaults, objs, blk, edid, did, call, nmut>>

NextBlocks ==
    \/ Header_new \/ StandardTiming_new \/ DetailedTimingDescriptor_new \/ MonitorText_new
    \/ MonitorRangeLimits_new \/ BasicDisplayParameters_new \/ ChromaticityCoordinates_new
    \/ blk_as_bytes

SpecBlocks == Init /\ [][NextBlocks]_vars

\* BaseEDID(...)
BaseEDID_new ==
    \E a \in BaseEDIDInputs : \E r \in {BaseEDID_init(a)} :
        /\ edid.cls = "None" /\ call = NoCall
        /\ call' = [op |-> "BaseEDID", args |-> a]
        /\ IF r.ok THEN edid' = r.obj /\ err' = "" ELSE edid' = edid /\ err' = r.err
        /\ UNCHANGED <<reads, defaults, objs, blk, did, out, nmut>>

\* the plain setters: self._<field> = value
BaseEDID_set_header ==
    \E h \in {Header_LNX, Header_ACR} :
        /\ edid.cls = "BaseEDID" /\ nmut < MaxMutations
        /\ edid' = [edid EXCEPT !.header = h]
        /\ nmut' = nmut + 1 /\ reads' = [reads EXCEPT !.edid = <<>>] /\ err' = ""
        /\ UNCHANGED <<defaults, objs, blk, did, out, call>>

BaseEDID_set_established_timing ==
    \E et \in {str_000000, str_234800} :
        /\ edid.cls = "BaseEDID" /\ nmut < MaxMutations
        /\ edid' = [edid EXCEPT !.established_timing = et]
        /\ nmut' = nmut + 1 /\ reads' = [reads EXCEPT !.edid = <<>>] /\ err' = ""
        /\ UNCHANGED <<defaults, objs, blk, did, out, call>>

\* a num_ext_blocks setter that recomputes the checksum
BaseEDID_set_num_ext_blocks_recomputing ==
    \E n \in 0..MaxExtBlocks :
        /\ edid.cls = "BaseEDID" /\ nmut < MaxMutations
        /\ edid' = [edid EXCEPT !.num_ext_blocks = n,
                                !.checksum = BaseEDID_checksum(sum(BaseEDID_as_bytes(
                                    [edid EXCEPT !.num_ext_blocks = n, !.checksum = 0]).bytes))]
        /\ nmut' = nmut + 1 /\ reads' = [reads EXCEPT !.edid = <<>>] /\ err' = ""
        /\ UNCHANGED <<defaults, objs, blk, did, out, call>>

BaseEDID_set_num_ext_blocks ==
    \E n \in 0..MaxExtBlocks :
        /\ edid.cls = "BaseEDID" /\ nmut < MaxMutations
        /\ edid' = [edid EXCEPT !.num_ext_blocks = n]
        /\ nmut' = nmut + 1 /\ reads' = [reads EXCEPT !.edid = <<>>] /\ err' = ""
        /\ UNCHANGED <<defaults, objs, blk, did, out, call>>

\* reading as_bytes of the BaseEDID; the standard_timings getter leaves the
\* list extended
edid_as_bytes ==
    /\ edid.cls = "BaseEDID"
    /\ out' = BaseEDID_as_bytes(edid)
    /\ err' = out'.err
    /\ reads' = [reads EXCEPT !.edid = last_two(@, out')]
    /\ edid' = [edid EXCEPT !.standard_timings = standard_timings_value(@)]
    /\ UNCHANGED <<defaults, objs, blk, did, call, nmut>>

NextEdid ==
    \/ BaseEDID_new \/ BaseEDID_set_header \/ BaseEDID_set_established_timing
    \/ BaseEDID_set_num_ext_blocks \/ edid_as_bytes

SpecEdid == Init /\ [][NextEdid]_vars

(***************************************************************************)
(* DisplayId: inputs and life cycle                                        *)
(***************************************************************************)
MaxDescriptors == 6

DescriptorOf(pc, ha, hb, hfp, hsp, hsw, va, vb, vfp, vsp, vsw, scan, stereo, pref) ==
    [cls |-> "Descriptor", pixel_clock |-> pc,
     horizontal_active_pixels |-> ha, horizontal_blank_pixels |-> hb,
     horizontal_front_porch |-> hfp, horizontal_sync_positive |-> hsp, horizontal_sync_width |-> hsw,
     vertical_active_pixels |-> va, vertical_blank_pixels |-> vb,
     vertical_front_porch |-> vfp, vertical_sync_positive |-> vsp, vertical_sync_width |-> vsw,
     scanning_type |-> scan, stereo_3d |-> stereo, preferred |-> pref]

\* the two descriptors of display_id_test.py
Descriptor_1080 == DescriptorOf(274560, 1920, 80, 8, FALSE, 32, 1080, 64, 50, TRUE, 8, 0, 0, FALSE)
Descriptor_2160 == DescriptorOf(1066510, 3840, 161, 48, TRUE, 34, 2160, 63, 4, FALSE, 6, 0, 0, FALSE)

\* a TypeVII block of n descriptors
TypeVIIOf(n) ==
    TypeVII_init(0, FALSE, [i \in 1..n |-> IF i % 2 = 1 THEN Descriptor_1080 ELSE Descriptor_2160])

\* lists of data blocks: none, one block of 0..MaxDescriptors descriptors
\* (3 + 20 n bytes), two blocks, and the list of seven blocks whose 121 bytes
\* fill an extension block exactly
DataBlocksInputs ==
    {<<>>, <<TypeVIIOf(1), TypeVIIOf(2)>>,
     [i \in 1..7 |-> IF i = 1 THEN TypeVIIOf(5) ELSE TypeVIIOf(0)]}
    \cup {<<TypeVIIOf(n)>> : n \in 0..MaxDescriptors}

str_1_2 == <<"1", ".", "2">>
str_2_0 == <<"2", ".", "0">>

DisplayIdInputs ==
    [revision : {str_1_2, str_2_0},
     product_type : {"EXTENSION_SECTION", "DISPLAY_PANEL", "STANDALONE_DISPLAY"},
     section_type : SectionType,
     data_blocks : DataBlocksInputs]

\* DisplayId(revision, product_type, section_type, data_blocks)
DisplayId_new ==
    \E a \in DisplayIdInputs : \E r \in {DisplayId_init(a)} :
        /\ did.cls = "None" /\ call = NoCall
        /\ call' = [op |-> "DisplayId", args |-> a, passes |-> r.passes]
        /\ IF r.ok THEN did' = r.obj /\ err' = "" ELSE did' = did /\ err' = r.err
        /\ UNCHANGED <<reads, defaults, objs, blk, edid, out, nmut>>

\* display_id.section_type = value, on a constructed object; an exception
\* leaves the object as the setter had it when it raised
DisplayId_set_section_type ==
    /\ did.cls = "DisplayId" /\ nmut < MaxMutations
    /\ \E value \in SectionType : \E r \in {DisplayId_section_type_setter(did, value)} :
        /\ call' = [op |-> "section_type", args |-> value, passes |-> r.passes]
        /\ did' = r.obj /\ err' = r.err
        /\ nmut' = nmut + 1 /\ reads' = [reads EXCEPT !.did = <<>>]
        /\ UNCHANGED <<defaults, objs, blk, edid, out>>

\* display_id.product_type = value: EdidProperty.__set__ stores an Enum member
\* unchecked
DisplayId_set_product_type ==
    \E value \in DOMAIN ProductType :
        /\ did.cls = "DisplayId" /\ nmut < MaxMutations
        /\ call' = [op |-> "product_type", args |-> value, passes |-> <<>>]
        /\ did' = [did EXCEPT !.product_type = value] /\ err' = ""
        /\ nmut' = nmut + 1 /\ reads' = [reads EXCEPT !.did = <<>>]
        /\ UNCHANGED <<defaults, objs, blk, edid, out>>

\* reading as_bytes of the DisplayId
did_as_bytes ==
    /\ did.cls = "DisplayId"
    /\ out' = DisplayId_as_bytes(did)
    /\ err' = out'.err
    /\ reads' = [reads EXCEPT !.did = last_two(@, out')]
    /\ UNCHANGED <<defaults, objs, blk, edid, did, call, nmut>>

NextDid ==
    \/ DisplayId_new \/ DisplayId_set_section_type \/ DisplayId_set_product_type
    \/ did_as_bytes

SpecDid == Init /\ [][NextDid]_vars

\* every structure, the BaseEDID and the DisplayId in one specification
Next == NextBlocks \/ NextEdid \/ NextDid

Spec == Init /\ [][Next]_vars

(***************************************************************************)
(* display_id_models.py: ByteBlock.edid_prop_names and data_at_position    *)
(***************************************************************************)
\* the EdidProperty attributes of the class, in the order of the class body
Did_class_prop_names(cls) ==
    CASE cls = "DisplayId" ->
            <<"edid_block_tag", "edid_checksum", "revision", "length_of_block", "product_type",
              "extension_count", "data_blocks", "checksum">>
      [] cls = "TypeVII" -> <<"block_tag", "revision_dsc_support", "num_payload_bytes", "timing_descriptors">>
      [] cls = "Descriptor" ->
            <<"pixel_clock", "timing_options", "horizontal_active_pixels", "horizontal_blank_pixels",
              "horizontal_offset", "horizontal_sync_width", "vertical_active_pixels",
              "vertical_blank_pixels", "vertical_offset", "vertical_sync_width">>

\* get_edid_props of any object of display_id_models.py
Did_prop_values(o) ==
    CASE o.cls = "DisplayId" -> DisplayId_props(o)
      [] o.cls = "TypeVII" -> TypeVII_props(o)
      [] o.cls = "Descriptor" -> Descriptor_props(o)

\* edid_prop_names: the attributes whose str() contains 'EdidProperty', those
\* of the instance's __dict__ first.  str() of the _edid_props dict holds the
\* repr of its EdidPropertyValue objects, so a dict that is not empty is named.
Did_edid_prop_names(o) ==
    (IF Did_prop_values(o) # <<>> THEN <<"_edid_props">> ELSE <<>>) \o Did_class_prop_names(o.cls)

\* data_at_position: getattr(self, prop).byte_range of the first name.  For
\* '_edid_props' the attribute is the dict, which has no byte_range; for a
\* class property of an instance whose dict is empty EdidProperty.__get__
\* finds no entry.
Did_data_at_position(o, position) ==
    IF Head(Did_edid_prop_names(o)) = "_edid_props" THEN Raises("AttributeError")
    ELSE Raises("KeyError")

(***************************************************************************)
(* Looking fields up by offset                                             *)
(***************************************************************************)
MaxPosition == 128

\* the offsets asked for: one before and one after the structure included
positions_of(o) == IF o.cls \in {"TypeVII", "DisplayId", "BaseEDID"} THEN (0 - 1)..MaxPosition ELSE (0 - 1)..20

\* the last operation was a data_at_position.  The result depends on the
\* object and the position only, so a lookup made after another reaches no
\* state that the first lookup does not reach: the lookups below are taken
\* from the states that hold no result yet.
looked_up == "result" \in DOMAIN out

\* DisplayIDTimings.TypeVII(0, False, descriptors), a structure of its own
TypeVII_new ==
    \E n \in 0..MaxDescriptors :
        /\ blk.cls = "None" /\ call = NoCall
        /\ call' = [op |-> "new", args |-> n]
        /\ blk' = TypeVIIOf(n) /\ err' = ""
        /\ UNCHANGED <<edid, did, out, nmut, reads, defaults, objs>>

\* structure.data_at_position(position); out is the position and the result
blk_data_at_position ==
    /\ blk.cls # "None" /\ ~looked_up
    /\ \E position \in positions_of(blk) :
           \E r \in {IF blk.cls = "TypeVII" THEN Did_data_at_position(blk, position)
                     ELSE data_at_position(blk, position)} :
               /\ out' = [position |-> position, result |-> r]
               /\ err' = r.err
    /\ UNCHANGED <<blk, edid, did, call, nmut, reads, defaults, objs>>

\* base_edid.data_at_position(position); the standard_timings getter leaves
\* the list extended
edid_data_at_position ==
    /\ edid.cls = "BaseEDID" /\ ~looked_up
    /\ \E position \in positions_of(edid) : \E r \in {data_at_position(edid, position)} :
           /\ out' = [position |-> position, result |-> r]
           /\ err' = r.err
    /\ edid' = [edid EXCEPT !.standard_timings = standard_timings_value(@)]
    /\ UNCHANGED <<blk, did, call, nmut, reads, defaults, objs>>

\* display_id.data_at_position(position)
did_data_at_position ==
    /\ did.cls = "DisplayId" /\ ~looked_up
    /\ \E position \in positions_of(did) : \E r \in {Did_data_at_position(did, position)} :
           /\ out' = [position |-> position, result |-> r]
           /\ err' = r.err
    /\ UNCHANGED <<blk, edid, did, call, nmut, reads, defaults, objs>>

NextLookup ==
    \/ Header_new \/ StandardTiming_new \/ DetailedTimingDescriptor_new \/ MonitorText_new
    \/ MonitorRangeLimits_new \/ BasicDisplayParameters_new \/ ChromaticityCoordinates_new
    \/ TypeVII_new \/ BaseEDID_new \/ DisplayId_new
    \/ blk_data_at_position \/ edid_data_at_position \/ did_data_at_position

SpecLookup == Init /\ [][NextLookup]_vars

(***************************************************************************)
(* Properties of BaseEDID                                                  *)
(***************************************************************************)
\* C1: every BaseEDID whose arguments pass validation is constructed, and its
\* as_bytes is 128 bytes that sum to 0 modulo 256, the byte at offset 127
\* being (256 - s mod 256) mod 256 for s the sum of the serialization taken
\* with the checksum at 0 (s mod 256 = 0 included).
C1_ChecksumSumsToZero ==
    (call.op = "BaseEDID" /\ BaseEDID_init(call.args).ok) =>
        /\ edid.cls = "BaseEDID"
        /\ nmut = 0 =>
            LET b == BaseEDID_as_bytes(edid)
                s == sum(BaseEDID_as_bytes([edid EXCEPT !.checksum = 0]).bytes)
            IN /\ b.ok /\ Len(b.bytes) = 128
               /\ sum(b.bytes) % 256 = 0
               /\ b.bytes[128] = (256 - (s % 256)) % 256

\* the slice b[from:to] of a Python bytes object held as a sequence
slice(b, from, to) == SubSeq(b, from + 1, to)

\* C5: as_bytes of every constructed BaseEDID is 128 bytes: [0,20) the Header,
\* [20,25) the BasicDisplayParameters, [25,35) the ChromaticityCoordinates,
\* [35,38) the established timing, [38,54) eight 2-byte standard timings,
\* [54,126) four 18-byte descriptors, 126 the extension count, 127 the checksum.
C5_BaseEDIDLayout ==
    edid.cls = "BaseEDID" =>
        LET b == BaseEDID_as_bytes(edid)
            st == standard_timings_value(edid.standard_timings)
        IN /\ b.ok /\ Len(b.bytes) = 128
           /\ slice(b.bytes, 0, 20) = as_bytes(edid.header).bytes
           /\ slice(b.bytes, 20, 25) = as_bytes(edid.basic_display_parameters).bytes
           /\ slice(b.bytes, 25, 35) = as_bytes(edid.chromaticity_coordinates).bytes
           /\ slice(b.bytes, 35, 38) = fromhex(edid.established_timing).bytes
           /\ Len(st) = 8
           /\ \A i \in 1..8 : slice(b.bytes, 38 + 2 * (i - 1), 38 + 2 * i) = as_bytes(st[i]).bytes
           /\ \A i \in 1..4 : slice(b.bytes, 54 + 18 * (i - 1), 54 + 18 * i) = as_bytes(edid.descriptors[i]).bytes
           /\ b.bytes[127] = edid.num_ext_blocks
           /\ b.bytes[128] = edid.checksum

\* the layout of C5 for the objects whose stored checksum fits a byte
C5_LayoutWhenChecksumFits ==
    (edid.cls = "BaseEDID" /\ edid.checksum < 256) => C5_BaseEDIDLayout

\* C6: block_size of a constructed BaseEDID is 128 and is the length of its
\* as_bytes (as block_size of each sub-structure is its documented size).
C6_BlockSizeIsDocumentedSize ==
    edid.cls = "BaseEDID" =>
        /\ BaseEDID_block_size(edid) = 128
        /\ block_size(edid.header) = 20
        /\ block_size(edid.basic_display_parameters) = 5
        /\ block_size(edid.chromaticity_coordinates) = 10
        /\ \A i \in DOMAIN edid.standard_timings : block_size(edid.standard_timings[i]) = 2
        /\ \A i \in DOMAIN edid.descriptors : block_size(edid.descriptors[i]) = 18
        /\ LET b == BaseEDID_as_bytes(edid) IN b.ok => BaseEDID_block_size(edid) = Len(b.bytes)

\* the sub-structures' part of C6
C6_SubStructureSizes ==
    edid.cls = "BaseEDID" =>
        /\ block_size(edid.header) = 20 /\ Len(as_bytes(edid.header).bytes) = 20
        /\ block_size(edid.basic_display_parameters) = 5
        /\ block_size(edid.chromaticity_coordinates) = 10
        /\ \A i \in DOMAIN edid.standard_timings : block_size(edid.standard_timings[i]) = 2
        /\ \A i \in DOMAIN edid.descriptors : block_size(edid.descriptors[i]) = 18

\* the stored checksum is outside a byte exactly when the sum taken at
\* construction is a multiple of 256
C1_ChecksumOutOfRange ==
    (edid.cls = "BaseEDID" /\ nmut = 0 /\ edid.checksum = 256) /\ ~BaseEDID_as_bytes(edid).ok

\* C10: after any plain setters (header, established_timing, num_ext_blocks)
\* on a constructed BaseEDID the stored checksum is the one computed at
\* construction, and as_bytes differs from the construction-time bytes only
\* inside the ranges [0,20), [35,38), 126 of the fields whose value differs;
\* the checksum byte is the construction-time one.
C10_SetterChangesOnlyItsField ==
    edid.cls = "BaseEDID" =>
        \A e0 \in {BaseEDID_init(call.args).obj} :
        \A b \in {BaseEDID_as_bytes(e0).bytes} :
        \A c \in {BaseEDID_as_bytes(edid)} :
           /\ edid.checksum = e0.checksum
           /\ (edid.checksum < 256) =>
                /\ c.ok /\ Len(c.bytes) = 128
                /\ c.bytes[128] = b[128]
                /\ slice(c.bytes, 20, 35) = slice(b, 20, 35)
                /\ slice(c.bytes, 38, 126) = slice(b, 38, 126)
                /\ edid.header = e0.header => slice(c.bytes, 0, 20) = slice(b, 0, 20)
                /\ edid.established_timing = e0.established_timing =>
                      slice(c.bytes, 35, 38) = slice(b, 35, 38)
                /\ edid.num_ext_blocks = e0.num_ext_blocks => c.bytes[127] = b[127]

\* a BaseEDID read after one setter call whose 128 bytes no longer sum to 0
C10_StaleChecksumRead ==
    /\ edid.cls = "BaseEDID" /\ nmut = 1
    /\ edid.num_ext_blocks # call.args.num_ext_blocks
    /\ out.ok /\ out = BaseEDID_as_bytes(edid)
    /\ out.bytes[128] = BaseEDID_init(call.args).obj.checksum
    /\ sum(out.bytes) % 256 # 0

\* C9: BaseEDID(...) raises and leaves no object when standard_timings holds 0
\* or more than 8 entries or an entry that is no StandardTiming, when
\* descriptors is not a list of exactly 4, or when the first descriptor is no
\* DetailedTimingDescriptor; StandardTiming(...) raises and leaves no object
\* when aspect_ratio is none of 16:10, 4:3, 5:4, 16:9.
C9_InvalidArgumentsRejected ==
    /\ (/\ call.op = "BaseEDID"
        /\ LET st == call.args.standard_timings.items
               ds == call.args.descriptors
           IN \/ Len(st) = 0 \/ Len(st) > 8
              \/ \E i \in DOMAIN st : st[i].cls # "StandardTiming"
              \/ ~ds.is_list \/ Len(ds.items) # 4
              \/ ds.items[1].cls # "DetailedTimingDescriptor")
       => (edid.cls = "None" /\ err = "AssertionError")
    /\ (/\ call.op = "new" /\ call.args.cls = "StandardTiming"
        /\ call.args.aspect_ratio \notin {"16:10", "4:3", "5:4", "16:9"})
       => (blk.cls = "None" /\ err = "AssertionError")

\* a BaseEDID(...) call with four descriptors of which the first is not a
\* DetailedTimingDescriptor, and otherwise valid arguments, has raised
C9_FirstDescriptorRejected ==
    /\ call.op = "BaseEDID"
    /\ Len(call.args.standard_timings.items) \in 1..8
    /\ \A i \in DOMAIN call.args.standard_timings.items :
          call.args.standard_timings.items[i].cls = "StandardTiming"
    /\ call.args.descriptors.is_list /\ Len(call.args.descriptors.items) = 4
    /\ call.args.descriptors.items[1].cls # "DetailedTimingDescriptor"
    /\ edid.cls = "None" /\ err = "AssertionError"

(***************************************************************************)
(* Properties of the structures' serialization                             *)
(***************************************************************************)
\* the properties of a structure whose converter returns more bytes than the
\* width of their byte range
overflowing(o) ==
    {i \in DOMAIN edid_props(o) :
        LET p == edid_props(o)[i] IN
        p.kind = "leaf" /\ p.enc.ok /\ Len(p.enc.bytes) > EdidPropertyValue_block_size(p)}

\* C7: every Header, StandardTiming, DetailedTimingDescriptor and
\* MonitorRangeLimits the constructor accepts serializes, every converter
\* returning at most as many bytes as the width of the property's range.
C7_AcceptedValuesEncode ==
    blk.cls \in {"Header", "StandardTiming", "DetailedTimingDescriptor", "MonitorRangeLimits"} =>
        /\ as_bytes(blk).ok
        /\ \A i \in DOMAIN edid_props(blk) : edid_props(blk)[i].enc.ok
        /\ overflowing(blk) = {}

\* C8: when a converter returns more bytes than the width of its range,
\* as_bytes raises, returns no bytes, and the exception names the property
\* together with the declared width and the actual length.
C8_OverflowNamesTheField ==
    (blk.cls # "None" /\ out = as_bytes(blk) /\ overflowing(blk) # {}
     /\ \A i \in DOMAIN edid_props(blk) : edid_props(blk)[i].enc.ok) =>
        /\ ~out.ok /\ out.bytes = <<>> /\ out.err = "Exception"
        /\ out.width >= 0 /\ out.actual > out.width
        /\ out.subject \in {edid_props(blk)[i].name : i \in overflowing(blk)}

\* the part of C8 the code keeps: the overflow raises, nothing is returned,
\* and the message carries the width and the length
C8_OverflowRaises ==
    (blk.cls # "None" /\ out = as_bytes(blk) /\ overflowing(blk) # {}
     /\ \A i \in DOMAIN edid_props(blk) : edid_props(blk)[i].enc.ok) =>
        /\ ~out.ok /\ out.bytes = <<>> /\ out.err = "Exception"
        /\ out.width >= 0 /\ out.actual > out.width

(***************************************************************************)
(* Properties of DisplayId                                                 *)
(***************************************************************************)
\* the concatenated as_bytes of the data blocks of a DisplayId
data_bytes(d) == reduce_bytes(data_block_items(d.data_blocks), <<>>).bytes

\* C2: a DisplayId constructed as BASE_SECTION or EXTENSION_SECTION serializes
\* with the checksum as its last byte, and its bytes sum to 0 modulo 256.
C2_StandaloneChecksum ==
    (call.op = "DisplayId" /\ did.cls = "DisplayId"
     /\ did.section_type \in {"BASE_SECTION", "EXTENSION_SECTION"}) =>
        LET b == DisplayId_as_bytes(did) IN
        /\ b.ok
        /\ b.bytes[Len(b.bytes)] = did.checksum
        /\ sum(b.bytes) % 256 = 0

\* the part of C2 the code keeps: the last byte is the stored checksum, which
\* is the 0 the constructor assigned
C2_StandaloneChecksumIsZero ==
    (call.op = "DisplayId" /\ did.cls = "DisplayId"
     /\ did.section_type \in {"BASE_SECTION", "EXTENSION_SECTION"}) =>
        LET b == DisplayId_as_bytes(did) IN
        /\ b.ok /\ Len(b.bytes) = 5 + Len(data_bytes(did))
        /\ b.bytes[Len(b.bytes)] = did.checksum /\ did.checksum = 0

\* C3: constructing a DisplayId as EDID_EXTENSION_BLOCK takes two
\* serializations.  The first holds neither the tag nor the outer checksum
\* (127 bytes, byte 0 a gap, byte 126 still 0) and gives the inner checksum,
\* after which bytes 1..126 sum to 0 modulo 256; the second holds the tag and
\* the inner checksum with byte 127 still 0 and gives the outer checksum, after
\* which all 128 bytes sum to 0 modulo 256.
C3_InnerThenOuterChecksum ==
    (call.op = "DisplayId" /\ did.cls = "DisplayId" /\ did.section_type = "EDID_EXTENSION_BLOCK") =>
        LET b == DisplayId_as_bytes(did) IN
        /\ Len(call.passes) = 2
        /\ LET first == call.passes[1]
               second == call.passes[2]
           IN /\ Len(first) = 127 /\ first[1] = 0 /\ first[127] = 0
              /\ did.checksum = (256 - (sum(first) % 256)) % 256
              /\ Len(second) = 128 /\ second[1] = 112 /\ second[128] = 0
              /\ second[127] = did.checksum
              /\ SubSeq(second, 2, 126) = SubSeq(first, 2, 126)
              /\ did.edid_checksum = (256 - (sum(second) % 256)) % 256
        /\ b.ok /\ Len(b.bytes) = 128
        /\ b.bytes[127] = did.checksum /\ b.bytes[128] = did.edid_checksum
        /\ sum(SubSeq(b.bytes, 2, 127)) % 256 = 0
        /\ sum(b.bytes) % 256 = 0

\* an EDID_EXTENSION_BLOCK DisplayId holding data blocks has been constructed
\* and read, with both checksum bytes non-zero
C3_BothChecksumsRead ==
    /\ call.op = "DisplayId" /\ did.cls = "DisplayId" /\ did.section_type = "EDID_EXTENSION_BLOCK"
    /\ did.data_blocks # <<>>
    /\ out.ok /\ out = DisplayId_as_bytes(did)
    /\ out.bytes[127] # 0 /\ out.bytes[128] # 0
    /\ sum(out.bytes) % 256 = 0

\* C4: a DisplayId constructed as EDID_EXTENSION_BLOCK with data blocks of at
\* most 121 bytes serializes to exactly 128 bytes: the tag 0x70 at byte 0,
\* revision, length_of_block, product_type and extension_count at bytes 1 to
\* 4, the data blocks from byte 5, zeros from their end up to byte 126, the
\* inner checksum at byte 126 and the outer checksum at byte 127.
C4_EmbeddedLayout ==
    (call.op = "DisplayId" /\ call.args.section_type = "EDID_EXTENSION_BLOCK"
     /\ Len(reduce_bytes(data_block_items(call.args.data_blocks), <<>>).bytes) <= 121) =>
        /\ did.cls = "DisplayId" /\ did.section_type = "EDID_EXTENSION_BLOCK"
        /\ LET b == DisplayId_as_bytes(did)
               data == data_bytes(did)
           IN /\ b.ok /\ Len(b.bytes) = 128
              /\ b.bytes[1] = 112
              /\ <<b.bytes[2]>> = fromhex(replace_dot(did.revision)).bytes
              /\ b.bytes[3] = did.length_of_block.value
              /\ b.bytes[4] = ProductType[did.product_type]
              /\ b.bytes[5] = 0
              /\ slice(b.bytes, 5, 5 + Len(data)) = data
              /\ \A i \in (5 + Len(data))..125 : b.bytes[i + 1] = 0
              /\ b.bytes[127] = did.checksum
              /\ b.bytes[128] = did.edid_checksum

\* an EDID_EXTENSION_BLOCK DisplayId whose data blocks are 43 bytes has been
\* constructed and read: 128 bytes, zeros between the data and byte 126
C4_PaddedExtensionRead ==
    /\ call.op = "DisplayId" /\ did.cls = "DisplayId" /\ did.section_type = "EDID_EXTENSION_BLOCK"
    /\ Len(data_bytes(did)) = 43
    /\ out.ok /\ out = DisplayId_as_bytes(did) /\ Len(out.bytes) = 128
    /\ out.bytes[1] = 112 /\ out.bytes[6] = 34 /\ out.bytes[126] = 0

\* the data blocks fill the extension block exactly: 121 bytes, no padding
C4_FullExtensionRead ==
    /\ call.op = "DisplayId" /\ did.cls = "DisplayId" /\ did.section_type = "EDID_EXTENSION_BLOCK"
    /\ Len(data_bytes(did)) = 121
    /\ out.ok /\ Len(out.bytes) = 128

\* more than 121 bytes of data blocks: the constructor raises ValueError
C4_OversizeRejected ==
    /\ call.op = "DisplayId" /\ call.args.section_type = "EDID_EXTENSION_BLOCK"
    /\ Len(reduce_bytes(data_block_items(call.args.data_blocks), <<>>).bytes) > 121
    /\ did.cls = "None" /\ err = "ValueError"


(***************************************************************************)
(* Properties of the life cycle: immutability, sharing, repeated reads     *)
(***************************************************************************)
\* C11: once a DisplayId is constructed, no operation on it changes its
\* section type, its set of fields (the two EDID properties present or not)
\* or the byte range of any field.
C11_SectionTypeImmutable ==
    [][(did.cls = "DisplayId" /\ did'.cls = "DisplayId") =>
           /\ did'.section_type = did.section_type
           /\ did'.has_edid_props = did.has_edid_props
           /\ did'.range = did.range]_vars

\* a constructed embedded DisplayId re-assigned to a standalone section: the
\* assignment succeeded and the next read is no longer 128 bytes
C11_SectionTypeReassigned ==
    /\ did.cls = "DisplayId" /\ call.op = "section_type" /\ err = ""
    /\ did.section_type = "BASE_SECTION" /\ did.init_section_type = "EDID_EXTENSION_BLOCK"
    /\ reads.did # <<>> /\ out.ok /\ Len(out.bytes) < 128

(***************************************************************************)
(* Instances and the objects they refer to.  An instance holds its own     *)
(* attributes in self; shared names the attributes that refer to the       *)
(* definition-time default object (the argument was not passed), whose     *)
(* current value is in defaults.                                           *)
(***************************************************************************)
MaxObjects == 2

\* the object-valued arguments that have a default
default_arguments(cls) ==
    CASE cls = "BasicDisplayParameters" -> {"video_params", "suported_features"}
      [] cls = "TypeVII" -> {"timing_descriptors"}
      [] cls = "DisplayId" -> {"data_blocks"}

\* the structure an instance is, its references followed
resolve(i, defs) ==
    [f \in DOMAIN i.self |-> IF f \in i.shared THEN defs[f] ELSE i.self[f]]

\* as_bytes of an instance
instance_as_bytes(i, defs) ==
    CASE i.self.cls = "BasicDisplayParameters" -> as_bytes(resolve(i, defs))
      [] i.self.cls = "TypeVII" -> TypeVII_as_bytes(resolve(i, defs))
      [] i.self.cls = "DisplayId" -> DisplayId_as_bytes(resolve(i, defs))

\* BasicDisplayParameters(...), TypeVII(...), DisplayId(...) with the
\* arguments in omitted left out: self._x = x stores the reference it is given
construct(cls, omitted, defs) ==
    LET arg(f, given) == IF f \in omitted THEN defs[f] ELSE given IN
    CASE cls = "BasicDisplayParameters" ->
            [self |-> BasicDisplayParametersOf(
                          arg("video_params", AnalogueParametersOf(3, FALSE, TRUE, TRUE, FALSE, TRUE)), 100, 56, 220),
             shared |-> omitted]
      [] cls = "TypeVII" ->
            [self |-> TypeVII_init(0, FALSE, arg("timing_descriptors", <<Descriptor_1080>>)),
             shared |-> omitted]
      [] cls = "DisplayId" ->
            [self |-> DisplayId_init([revision |-> str_1_2, product_type |-> "STANDALONE_DISPLAY",
                                      section_type |-> "BASE_SECTION",
                                      data_blocks |-> arg("data_blocks", <<TypeVIIOf(1)>>)]).obj,
             shared |-> omitted]

\* a mutation of the object an attribute refers to: an attribute of the
\* sub-structure assigned, or an item appended to the list
mutated(f, value) ==
    CASE f = "video_params" ->
            IF value.cls = "DigitalParameters" THEN [value EXCEPT !.bit_depth = 2]
            ELSE [value EXCEPT !.BTB = TRUE]
      [] f = "suported_features" -> [value EXCEPT !.standard_srgb = TRUE]
      [] f = "data_blocks" -> Append(value, TypeVIIOf(0))
      [] f = "timing_descriptors" -> Append(value, Descriptor_2160)

\* a constructor call, every subset of the defaulted arguments omitted
instance_new ==
    \E cls \in {"BasicDisplayParameters", "TypeVII", "DisplayId"} :
        \E omitted \in SUBSET default_arguments(cls) :
            /\ Len(objs) < MaxObjects /\ call.op \in {"", "instance"}
            /\ objs' = Append(objs, construct(cls, omitted, defaults))
            /\ call' = [op |-> "instance", args |-> <<>>]
            /\ err' = ""
            /\ UNCHANGED <<blk, edid, did, out, nmut, reads, defaults>>

\* objs[k].<f>.value mutated in place: the object mutated is the default
\* object when the instance refers to it, the instance's own otherwise.  The
\* call records the serialization of every instance before the mutation.
instance_mutate ==
    \E k \in DOMAIN objs : \E f \in default_arguments(objs[k].self.cls) :
        /\ nmut < MaxMutations /\ call.op \in {"instance", "mutate"}
        /\ IF f \in objs[k].shared
           THEN defaults' = [defaults EXCEPT ![f] = mutated(f, @)] /\ objs' = objs
           ELSE objs' = [objs EXCEPT ![k].self[f] = mutated(f, @)] /\ defaults' = defaults
        /\ call' = [op |-> "mutate", args |-> <<k, f>>,
                    before |-> [j \in DOMAIN objs |-> instance_as_bytes(objs[j], defaults)]]
        /\ nmut' = nmut + 1 /\ err' = ""
        /\ UNCHANGED <<blk, edid, did, out, reads>>

\* reading as_bytes of an instance
instance_read ==
    \E k \in DOMAIN objs :
        /\ out' = instance_as_bytes(objs[k], defaults)
        /\ err' = out'.err
        /\ UNCHANGED <<blk, edid, did, call, nmut, reads, defaults, objs>>

NextShared == instance_new \/ instance_mutate \/ instance_read

SpecShared == Init /\ [][NextShared]_vars

\* C12: structures built by separate constructor calls share no mutable
\* state: a mutation of a sub-structure or list reached from one instance
\* leaves the serialization of every other instance as it was.
C12_NoSharedState ==
    call.op = "mutate" =>
        \A j \in DOMAIN call.before :
            j # call.args[1] => instance_as_bytes(objs[j], defaults) = call.before[j]

\* two DisplayId built with no arguments; an item appended to the data_blocks
\* of the first is in the serialization of the second
C12_DefaultListShared ==
    /\ call.op = "mutate" /\ call.args = <<1, "data_blocks">> /\ Len(objs) = 2
    /\ objs[1].self.cls = "DisplayId" /\ objs[2].self.cls = "DisplayId"
    /\ objs[1].shared = {"data_blocks"} /\ objs[2].shared = {"data_blocks"}
    /\ instance_as_bytes(objs[2], defaults) # call.before[2]

\* instances that were given their own arguments are not affected
C12_OwnArgumentsNotShared ==
    call.op = "mutate" =>
        \A j \in DOMAIN call.before :
            (j # call.args[1] /\ call.args[2] \notin objs[j].shared)
                => instance_as_bytes(objs[j], defaults) = call.before[j]

\* C13: as_bytes read twice in a row from the same BaseEDID or DisplayId, with
\* no assignment in between, returns the same bytes both times (the same
\* exception when it raises).
C13_RepeatedReadIdentical ==
    /\ Len(reads.edid) = 2 => reads.edid[1] = reads.edid[2]
    /\ Len(reads.did) = 2 => reads.did[1] = reads.did[2]

\* a BaseEDID constructed with fewer than 8 standard timings, read twice
\* straight after construction
C13_ShortTimingsReadTwice ==
    /\ call.op = "BaseEDID" /\ Len(call.args.standard_timings.items) < 8 /\ nmut = 0
    /\ Len(reads.edid) = 2 /\ reads.edid[2].ok /\ Len(reads.edid[2].bytes) = 128
    /\ out = reads.edid[2]

\* a DisplayId of either layout read twice
C13_EmbeddedReadTwice ==
    /\ did.cls = "DisplayId" /\ did.section_type = "EDID_EXTENSION_BLOCK"
    /\ Len(reads.did) = 2 /\ reads.did[2].ok /\ Len(reads.did[2].bytes) = 128

C13_StandaloneReadTwice ==
    /\ did.cls = "DisplayId" /\ did.section_type = "BASE_SECTION" /\ did.data_blocks # <<>>
    /\ Len(reads.did) = 2 /\ reads.did[2].ok

(***************************************************************************)
(* Properties of data_at_position                                          *)
(***************************************************************************)
\* the top-level properties of a BaseEDID whose range holds the position
owners(props, position) ==
    {i \in DOMAIN props : props[i].range[1] <= position /\ position < props[i].range[2]}

\* the result is a dict whose outermost range holds the position asked for
resolved(r, position) ==
    /\ r.kind = "dict"
    /\ r.levels[1].byte = position
    /\ r.levels[1].range[1] <= position /\ position < r.levels[1].range[2]

\* C14: for every constructed BaseEDID and every offset 0 <= o < 128,
\* data_at_position(o) returns a record, never False and never an exception,
\* whose range contains o, and exactly one top-level field owns the offset.
C14_EveryOffsetResolved ==
    (looked_up /\ edid.cls = "BaseEDID" /\ 0 <= out.position /\ out.position < 128)
        => /\ resolved(out.result, out.position)
           /\ Cardinality(owners(BaseEDID_props(edid), out.position)) = 1

\* C14, where it fails: offset 127 of a BaseEDID constructed with checksum 256
C14_ChecksumOffsetRaises ==
    /\ looked_up /\ edid.cls = "BaseEDID" /\ out.position = 127
    /\ edid.checksum = 256 /\ out.result.kind = "raise" /\ out.result.err = "OverflowError"

\* C14 for every BaseEDID whose stored checksum fits a byte
C14_ResolvedWhenChecksumFits ==
    (looked_up /\ edid.cls = "BaseEDID" /\ edid.checksum < 256 /\ 0 <= out.position /\ out.position < 128)
        => /\ resolved(out.result, out.position)
           /\ Cardinality(owners(BaseEDID_props(edid), out.position)) = 1

\* the record data_at_position returns for a leaf property p of the structure
\* looked up, were it to carry the property's name, range and value
leaf_record(p, position) == ReturnsDict(<<Level(position, p.name, -1, p.range)>>, Value(p))

\* the lookup resolved the position to the leaf property p of props
resolved_to_leaf(props, position, r) ==
    {i \in owners(props, position) :
        /\ r.kind = "dict" /\ Len(r.levels) = 1
        /\ props[i].kind = "leaf" /\ r.levels[1].name = props[i].name}

\* C15: when data_at_position resolves an offset to a leaf field, the record
\* carries the field's name, its range and its actual value, whatever the
\* value is, 0, False and the empty string included.
C15_LeafCarriesValue ==
    /\ (looked_up /\ blk.cls \notin {"None", "TypeVII"})
           => \A props \in {edid_prop_values(blk)} :
                  \A i \in resolved_to_leaf(props, out.position, out.result) :
                      out.result = leaf_record(props[i], out.position)
    /\ (looked_up /\ edid.cls = "BaseEDID")
           => \A props \in {BaseEDID_props(edid)} :
                  \A i \in resolved_to_leaf(props, out.position, out.result) :
                      out.result = leaf_record(props[i], out.position)

\* C15, where it fails: offset 12 of a Header with serial number 0 gives the
\* serial_num record with the string 'not found' as its value
C15_ZeroSerialNotFound ==
    /\ looked_up /\ blk = Header_LNX /\ out.position = 12
    /\ out.result.kind = "dict" /\ out.result.levels[1].name = "serial_num"
    /\ out.result.levels[1].range = <<12, 16>>
    /\ out.result.value = NotFound

\* C15 for the leaf values Python holds true: the record carries the value
C15_TruthyLeafCarriesValue ==
    /\ (looked_up /\ blk.cls \notin {"None", "TypeVII"})
           => \A props \in {edid_prop_values(blk)} :
                  \A i \in resolved_to_leaf(props, out.position, out.result) :
                      ~not_value(props[i]) => out.result = leaf_record(props[i], out.position)
    /\ (looked_up /\ edid.cls = "BaseEDID")
           => \A props \in {BaseEDID_props(edid)} :
                  \A i \in resolved_to_leaf(props, out.position, out.result) :
                      ~not_value(props[i]) => out.result = leaf_record(props[i], out.position)

\* the record of a lookup in a list property: the outer dict names the
\* property and the element index, the inner one is the element's record for
\* the rebased offset, a property of that element whose range holds it
list_record(r, position, name, index, rebased, item) ==
    /\ r.kind = "dict" /\ Len(r.levels) = 2
    /\ r.levels[1].byte = position /\ r.levels[1].name = name /\ r.levels[1].index = index
    /\ r.levels[2].byte = rebased
    /\ \E i \in DOMAIN edid_props(item) :
           /\ edid_props(item)[i].name = r.levels[2].name
           /\ edid_props(item)[i].range = r.levels[2].range
           /\ r.levels[2].range[1] <= rebased /\ rebased < r.levels[2].range[2]

in_list(r, position, name, start, size, items) ==
    list_record(r, position, name, (position - start) \div size,
                position - start - ((position - start) \div size) * size,
                items[((position - start) \div size) + 1])

\* C16: for a BaseEDID and an offset o inside standard_timings [38,54)
\* (2-byte elements) or descriptors [54,126) (18-byte elements),
\* data_at_position(o) recurses into element floor((o - start) / size) with
\* the offset rebased to o - start - index*size and names the result with the
\* field name followed by that index.
C16_ListBranch ==
    (looked_up /\ edid.cls = "BaseEDID")
        => /\ (38 <= out.position /\ out.position < 54)
                  => in_list(out.result, out.position, "standard_timings", 38, 2, edid.standard_timings)
           /\ (54 <= out.position /\ out.position < 126)
                  => in_list(out.result, out.position, "descriptors", 54, 18, edid.descriptors)

\* C16, its case: offset 100 is byte 10 of descriptors2, the range limits
C16_ThirdDescriptorLookedUp ==
    /\ looked_up /\ edid.cls = "BaseEDID" /\ out.position = 100
    /\ out.result.kind = "dict" /\ Len(out.result.levels) = 2
    /\ out.result.levels[1] = Level(100, "descriptors", 2, <<54, 126>>)
    /\ out.result.levels[2] = Level(10, "extended_timing_info_type", 0 - 1, <<10, 11>>)

\* C16, its case in the timings: offset 41 is byte 1 of standard_timings1
C16_SecondTimingLookedUp ==
    /\ looked_up /\ edid.cls = "BaseEDID" /\ out.position = 41
    /\ out.result.kind = "dict" /\ Len(out.result.levels) = 2
    /\ out.result.levels[1] = Level(41, "standard_timings", 1, <<38, 54>>)
    /\ out.result.levels[2] = Level(1, "vertical_timing", 0 - 1, <<1, 2>>)

\* the record of a lookup in the descriptor list of a Type-VII block b that
\* starts at `base` of the structure looked up: the innermost two dicts are the
\* descriptor's, named with index (o - start) div 20, and the descriptor
\* field's, for the rebased offset
descriptor_record(r, b, base, position) ==
    /\ r.kind = "dict" /\ Len(r.levels) >= 2
    /\ r.levels[Len(r.levels) - 1].name = "timing_descriptors"
    /\ r.levels[Len(r.levels) - 1].index = (position - base - b.timing_descriptors_range[1]) \div 20
    /\ r.levels[Len(r.levels)].byte = (position - base - b.timing_descriptors_range[1]) % 20
    /\ r.levels[Len(r.levels)].range[1] <= r.levels[Len(r.levels)].byte
    /\ r.levels[Len(r.levels)].byte < r.levels[Len(r.levels)].range[2]
    /\ r.value.found

\* where the data block i of a DisplayId starts: after the blocks before it
RECURSIVE block_start(_, _)
block_start(d, i) ==
    IF i = 1 THEN d.range.data_blocks
    ELSE block_start(d, i - 1) + 3 + 20 * Len(d.data_blocks[i - 1].timing_descriptors)

\* C17: for a Type-VII timing block holding n >= 2 descriptors, and for a
\* DisplayId containing it, data_at_position(o) for an offset o inside the
\* descriptor list returns the record of descriptor floor((o - start) / 20)
\* and inside it the descriptor field whose range holds the rebased offset;
\* no such offset gives an exception or the not-found result.
C17_TypeVIIListBranch ==
    /\ (/\ looked_up /\ blk.cls = "TypeVII" /\ Len(blk.timing_descriptors) >= 2
        /\ blk.timing_descriptors_range[1] <= out.position
        /\ out.position < blk.timing_descriptors_range[2])
           => descriptor_record(out.result, blk, 0, out.position)
    /\ (looked_up /\ did.cls = "DisplayId")
           => \A i \in DOMAIN did.data_blocks :
                  (/\ Len(did.data_blocks[i].timing_descriptors) >= 2
                   /\ block_start(did, i) + 3 <= out.position
                   /\ out.position < block_start(did, i) + 3 + 20 * Len(did.data_blocks[i].timing_descriptors))
                      => descriptor_record(out.result, did.data_blocks[i], block_start(did, i), out.position)

\* C17, where it fails: offset 23, the first byte of the second descriptor of
\* a Type-VII block of two descriptors, raises AttributeError
C17_SecondDescriptorRaises ==
    /\ looked_up /\ blk.cls = "TypeVII" /\ Len(blk.timing_descriptors) = 2 /\ out.position = 23
    /\ out.result.kind = "raise" /\ out.result.err = "AttributeError"

\* C17, where it fails in a DisplayId: an offset of the second descriptor of
\* its Type-VII block raises AttributeError
C17_DisplayIdDescriptorRaises ==
    /\ looked_up /\ did.cls = "DisplayId" /\ Len(did.data_blocks) = 1
    /\ Len(did.data_blocks[1].timing_descriptors) = 2
    /\ out.position = block_start(did, 1) + 23
    /\ out.result.kind = "raise" /\ out.result.err = "AttributeError"

(***************************************************************************)
(* Properties of the encodings                                             *)
(***************************************************************************)
\* the position 1..26 of a letter in the alphabet, whatever its case
alphabet_position(c) == IndexOf(ascii_uppercase, upper(c))

\* a 16-bit value as two bytes, the most significant first
big_endian_16(v) == <<v \div 256, v % 256>>

\* the 20 bytes of a header as the layout describes them
header_layout(h) ==
    <<0, 255, 255, 255, 255, 255, 255, 0>>
    \o big_endian_16(alphabet_position(h.manufacturer_id[1]) * 1024
                     + alphabet_position(h.manufacturer_id[2]) * 32
                     + alphabet_position(h.manufacturer_id[3]))
    \o <<hexval(h.product_code[1]) * 16 + hexval(h.product_code[2]),
         hexval(h.product_code[3]) * 16 + hexval(h.product_code[4])>>
    \o big_endian_16(h.serial_num.hi) \o big_endian_16(h.serial_num.lo)
    \o <<h.manufacture_week, h.manufacture_year - 1990>>
    \o <<IndexOf(digits, h.edid_version[1]) - 1, IndexOf(digits, h.edid_version[3]) - 1>>

\* as_bytes of the structure has been read
blk_read == blk.cls # "None" /\ out # Raise("unset")

\* C18: Header.as_bytes is 20 bytes: the magic 00 FF FF FF FF FF FF 00, the
\* manufacturer ID as the big-endian 16-bit (a<<10)|(b<<5)|c of the letters'
\* alphabet positions (lower case as upper case), the product code as 2 raw
\* bytes, the serial number in 4 bytes, the week, year - 1990, and the
\* version's major and minor digits; Header('LNX','0000',0,5,2012,'1.3')
\* gives 00 FF FF FF FF FF FF 00 31 D8 00 00 00 00 00 00 05 16 01 03.
C18_HeaderLayout ==
    (blk_read /\ blk.cls = "Header")
        => /\ out.ok /\ Len(out.bytes) = 20
           /\ Len(blk.product_code) >= 4 => out.bytes = header_layout(blk)
           /\ blk = Header_LNX
                  => out.bytes = <<0, 255, 255, 255, 255, 255, 255, 0, 49, 216,
                                   0, 0, 0, 0, 0, 0, 5, 22, 1, 3>>

\* C18, where it fails: a Header constructed with manufacture_year 1989
\* raises OverflowError when as_bytes is read
C18_Year1989Raises ==
    /\ blk_read /\ blk.cls = "Header" /\ blk.manufacture_year = 1989
    /\ ~out.ok /\ out.err = "OverflowError"

\* C18 for the headers whose as_bytes returns
C18_LayoutWhenEncodable ==
    (blk_read /\ blk.cls = "Header" /\ out.ok)
        => /\ Len(out.bytes) = 20
           /\ out.bytes = header_layout(blk)
           /\ blk = Header_LNX
                  => out.bytes = <<0, 255, 255, 255, 255, 255, 255, 0, 49, 216,
                                   0, 0, 0, 0, 0, 0, 5, 22, 1, 3>>

\* C18, the header of the simple test read
C18_SimpleTestHeaderRead ==
    /\ blk_read /\ blk = Header_LNX
    /\ out.ok /\ out.bytes = <<0, 255, 255, 255, 255, 255, 255, 0, 49, 216, 0, 0, 0, 0, 0, 0, 5, 22, 1, 3>>

\* the 2-bit aspect ratio code of a standard timing
aspect_code(aspect_ratio) ==
    CASE aspect_ratio = "16:10" -> 0
      [] aspect_ratio = "4:3" -> 1
      [] aspect_ratio = "5:4" -> 2
      [] aspect_ratio = "16:9" -> 3

\* C19: for every StandardTiming accepted by construction as_bytes is 2 bytes,
\* byte 0 = (x_resolution/8 - 31) & 0xFF and byte 1 = (aspect code << 6) |
\* (vertical_freq - 60), with codes 16:10 -> 0, 4:3 -> 1, 5:4 -> 2, 16:9 -> 3
\* and vertical_freq - 60 within 6 bits; StandardTiming(3840,'16:9',60) gives
\* C1 C0.
C19_StandardTimingBytes ==
    (blk_read /\ blk.cls = "StandardTiming")
        => /\ out.ok
           /\ 0 <= blk.vertical_freq - 60 /\ blk.vertical_freq - 60 < 64
           /\ out.bytes = <<((blk.x_resolution \div 8) - 31) % 256,
                            aspect_code(blk.aspect_ratio) * 64 + (blk.vertical_freq - 60)>>
           /\ blk = StandardTimingOf(3840, "16:9", 60) => out.bytes = <<193, 192>>

\* C19, its case: the timing of the simple test read as C1 C0
C19_SimpleTestTimingRead ==
    /\ blk_read /\ blk = StandardTimingOf(3840, "16:9", 60)
    /\ out.ok /\ out.bytes = <<193, 192>>

\* C19, the corners: a width that is no multiple of 8 with the largest
\* frequency offset, 63
C19_LargestOffsetRead ==
    /\ blk_read /\ blk = StandardTimingOf(1366, "5:4", 123)
    /\ out.ok /\ out.bytes = <<139, 191>>

\* the four pixel counts of a detailed timing descriptor fit 12 bits
twelve_bit(d) ==
    /\ d.hor_pixels \in 0..4095 /\ d.hor_blnk_pixels \in 0..4095
    /\ d.vert_pixels \in 0..4095 /\ d.vert_blnk_pixels \in 0..4095

\* bytes 2..7 of a serialization (b is indexed from 1) hold the four
\* counts of d: the low 8 bits each, the high 4 bits of active and blank
\* sharing bytes 4 and 7
pixel_fields_packed(b, d) ==
    /\ b[3] = d.hor_pixels % 256 /\ b[4] = d.hor_blnk_pixels % 256
    /\ b[5] = (d.hor_pixels \div 256) * 16 + (d.hor_blnk_pixels \div 256)
    /\ b[6] = d.vert_pixels % 256 /\ b[7] = d.vert_blnk_pixels % 256
    /\ b[8] = (d.vert_pixels \div 256) * 16 + (d.vert_blnk_pixels \div 256)

\* the four counts read back from bytes 2..7
pixel_fields_recovered(b, d) ==
    /\ d.hor_pixels = (b[5] \div 16) * 256 + b[3]
    /\ d.hor_blnk_pixels = (b[5] % 16) * 256 + b[4]
    /\ d.vert_pixels = (b[8] \div 16) * 256 + b[6]
    /\ d.vert_blnk_pixels = (b[8] % 16) * 256 + b[7]

\* C20: for every DetailedTimingDescriptor with 12-bit hor_pixels,
\* hor_blnk_pixels, vert_pixels and vert_blnk_pixels, bytes 2 and 3 are the low
\* 8 bits of horizontal active and blank, byte 4 is (hor_pixels>>8)<<4 |
\* (hor_blnk_pixels>>8), bytes 5, 6 and 7 likewise for the vertical counts, so
\* each value is recoverable from the serialized bytes; hor_pixels 3840 and
\* hor_blnk_pixels 560 give 00, 30 and F2.
C20_PixelFieldsPacked ==
    (blk_read /\ blk.cls = "DetailedTimingDescriptor" /\ twelve_bit(blk))
        => /\ out.ok /\ Len(out.bytes) = 18
           /\ pixel_fields_packed(out.bytes, blk)
           /\ pixel_fields_recovered(out.bytes, blk)
           /\ (blk.hor_pixels = 3840 /\ blk.hor_blnk_pixels = 560)
                  => SubSeq(out.bytes, 3, 5) = <<0, 48, 242>>

\* C20, where it fails: a descriptor with 12-bit counts and the pixel clock
\* 262.92 is constructed and its as_bytes raises AttributeError
C20_FloatClockRaises ==
    /\ blk_read /\ blk.cls = "DetailedTimingDescriptor" /\ twelve_bit(blk)
    /\ blk.pixel_clock.float /\ ~out.ok /\ out.err = "AttributeError"

\* C20 for the descriptors whose as_bytes returns
C20_PackedWhenSerialized ==
    (blk_read /\ blk.cls = "DetailedTimingDescriptor" /\ twelve_bit(blk) /\ out.ok)
        => /\ Len(out.bytes) = 18
           /\ pixel_fields_packed(out.bytes, blk)
           /\ pixel_fields_recovered(out.bytes, blk)
           /\ (blk.hor_pixels = 3840 /\ blk.hor_blnk_pixels = 560)
                  => SubSeq(out.bytes, 3, 5) = <<0, 48, 242>>

\* C20, the descriptor of the simple test read: 00 30 F2 and 70 5A 80
C20_SimpleTestDescriptorRead ==
    /\ blk_read /\ blk = DetailedTimingDescriptor_default
    /\ out.ok /\ SubSeq(out.bytes, 3, 8) = <<0, 48, 242, 112, 90, 128>>

\* C20, the corner with every high nibble full
C20_FullNibblesRead ==
    /\ blk_read /\ blk.cls = "DetailedTimingDescriptor"
    /\ blk.hor_pixels = 4095 /\ blk.hor_blnk_pixels = 4095
    /\ blk.vert_pixels = 4095 /\ blk.vert_blnk_pixels = 4095
    /\ out.ok /\ SubSeq(out.bytes, 3, 8) = <<255, 255, 255, 255, 255, 255>>

(***************************************************************************)
(* Structures built and read field by field                                *)
(***************************************************************************)
\* as_bytes of a structure of either engine
structure_as_bytes(o) ==
    CASE o.cls = "Descriptor" -> Descriptor_as_bytes(o)
      [] o.cls = "TypeVII" -> TypeVII_as_bytes(o)
      [] OTHER -> ByteBlock_as_bytes(edid_prop_values(o))

\* BasicDisplayParameters.AnalogueParameters(...) with arguments of the
\* annotated types: one of the four levels and five bools
AnalogueParameters_new ==
    \E w \in 0..3 : \E btb, sep, comp, sog, serr \in BOOLEAN :
        \E a \in {[cls |-> "AnalogueParameters", white_sync_lvls |-> w, BTB |-> btb,
                   separate_sync_support |-> sep, composite_sync_support |-> comp,
                   sync_on_green |-> sog, serration_on_vsync_pulse |-> serr]} :
            /\ blk.cls = "None" /\ call = NoCall
            /\ call' = [op |-> "new", args |-> a]
            /\ blk' = AnalogueParameters_init(a) /\ err' = ""
            /\ UNCHANGED <<edid, did, out, nmut, reads, defaults, objs>>

\* reading as_bytes of the structure
structure_read ==
    /\ blk.cls # "None"
    /\ out' = structure_as_bytes(blk)
    /\ err' = out'.err
    /\ UNCHANGED <<blk, edid, did, call, nmut, reads, defaults, objs>>

\* the descriptor of display_id_test.py with the arguments that vary
DescriptorWith(ha, va, hfp, hsp, vfp, vsp, scan, stereo, pref) ==
    DescriptorOf(274560, ha, 80, hfp, hsp, 32, va, 64, vfp, vsp, 8, scan, stereo, pref)

\* resolutions of every ratio of the table, reduced or not, and of none
Resolutions ==
    {<<1080, 1080>>, <<1280, 1024>>, <<1024, 768>>, <<1280, 768>>, <<15, 9>>, <<1920, 1080>>,
     <<1920, 1200>>, <<16, 10>>, <<2560, 1080>>, <<4096, 2160>>, <<1366, 768>>}

\* front porches at the ends of the 15 bits and around the byte boundary
FrontPorches == {0, 1, 8, 256, 32767}

DescriptorInputs ==
    {DescriptorWith(r[1], r[2], 8, FALSE, 50, TRUE, scan, stereo, pref) :
        r \in Resolutions, scan \in {0, 1}, stereo \in {0, 1, 2}, pref \in BOOLEAN}
    \cup {DescriptorWith(1920, 1080, hfp, hsp, vfp, vsp, 0, 0, FALSE) :
            hfp \in FrontPorches, hsp \in BOOLEAN, vfp \in {0, 50, 32767}, vsp \in BOOLEAN}

\* DisplayIDTimings.TypeVII.Descriptor(...)
Descriptor_new ==
    \E a \in DescriptorInputs :
        /\ blk.cls = "None" /\ call = NoCall
        /\ call' = [op |-> "new", args |-> a]
        /\ IF Descriptor_init(a) THEN blk' = a /\ err' = "" ELSE blk' = blk /\ err' = "AssertionError"
        /\ UNCHANGED <<edid, did, out, nmut, reads, defaults, objs>>

\* the seven values of DetailedTimingDescriptor.StereoMode
StereoMode == 0..6

\* the calls that build a sync object: AnalogueSync(serration, bipolar,
\* sync_on_rgb), DigitalSync(serration, positive_sync_polarity) and
\* DigitalSeparateSync(positive_vert_sync_polarity, positive_hor_sync_polarity)
SyncCalls ==
    {[cls |-> "AnalogueSync", serration |-> s, bipolar |-> b, sync_on_rgb |-> g] : s, b, g \in 0..1}
    \cup {[cls |-> "DigitalSync", serration |-> s, sync_polarity |-> p] : s, p \in 0..1}
    \cup {DigitalSeparateSync(v, h) : v, h \in 0..1}

\* AnalogueSync.__init__ reads self._bipolar, which nothing assigns; the
\* other two constructors store their arguments
sync_init(s) == s.cls # "AnalogueSync"

\* DetailedTimingDescriptor(interlaced=..., stereo=..., sync=<sync call>)
DetailedTimingDescriptor_with_sync ==
    \E il \in BOOLEAN : \E stereo \in StereoMode : \E s \in SyncCalls :
        \E a \in {DetailedTimingDescriptorOf(MHz(594), 3840, 560, 2160, 90, 0, il, stereo, s)} :
            /\ blk.cls = "None" /\ call = NoCall
            /\ call' = [op |-> "new", args |-> a]
            /\ IF sync_init(s) THEN blk' = a /\ err' = "" ELSE blk' = blk /\ err' = "AttributeError"
            /\ UNCHANGED <<edid, did, out, nmut, reads, defaults, objs>>

\* the fields assigned to after construction with the size of their byte
\* range: pixel_clock [0,3], horizontal_blank_pixels [6,8] and
\* vertical_sync_width [18,20]
AssignedFields == [pixel_clock |-> 3, horizontal_blank_pixels |-> 2, vertical_sync_width |-> 2]

\* integers around 0 and around the ends of two and three bytes
AssignedValues == {0 - 256, 0 - 1, 0, 1, 65535, 65536, 65537, 16777215, 16777216, 16777217}

\* descriptor.<field> = value on a constructed Descriptor: EdidProperty.__set__
\* asserts the width before it stores the value; the call keeps what it
\* raised and the descriptor it was made on
Descriptor_set ==
    /\ blk.cls = "Descriptor" /\ nmut < MaxMutations
    /\ \E field \in DOMAIN AssignedFields : \E value \in AssignedValues :
        /\ IF EdidProperty_set_accepts(value, AssignedFields[field])
           THEN blk' = [blk EXCEPT ![field] = value] /\ err' = ""
           ELSE blk' = blk /\ err' = "AssertionError"
        /\ call' = [op |-> "set", args |-> [field |-> field, value |-> value],
                    before |-> blk, raised |-> err']
        /\ out' = Raise("unset") /\ nmut' = nmut + 1
        /\ UNCHANGED <<edid, did, reads, defaults, objs>>

NextFields ==
    \/ AnalogueParameters_new
    \/ Descriptor_new
    \/ DetailedTimingDescriptor_with_sync
    \/ Descriptor_set
    \/ structure_read

SpecFields == Init /\ [][NextFields]_vars

(***************************************************************************)
(* Properties of the bit fields                                            *)
(***************************************************************************)
\* bit n of a byte
bit(byte, n) == (byte \div (2 ^ n)) % 2

\* C21: for every AnalogueParameters object, whatever the construction
\* arguments, if composite_sync_support or sync_on_green was given true then
\* bit 0 (serration on vsync) of the serialized byte is 1; bit 7 is always 0.
C21_SerrationForced ==
    (blk_read /\ blk.cls = "AnalogueParameters")
        => /\ out.ok /\ Len(out.bytes) = 1
           /\ (call.args.composite_sync_support \/ call.args.sync_on_green) => bit(out.bytes[1], 0) = 1
           /\ bit(out.bytes[1], 7) = 0

\* C21, its case: sync on green given without serration, read with bit 0 set
C21_SerrationForcedRead ==
    /\ blk_read /\ blk.cls = "AnalogueParameters"
    /\ call.args.sync_on_green /\ ~call.args.composite_sync_support
    /\ ~call.args.serration_on_vsync_pulse
    /\ out.ok /\ bit(out.bytes[1], 0) = 1 /\ bit(out.bytes[1], 1) = 1

\* C21, the largest byte: every flag set at the highest level is 7F
C21_AllSetRead ==
    /\ blk_read /\ blk.cls = "AnalogueParameters" /\ call.args.white_sync_lvls = 3
    /\ call.args.BTB /\ call.args.separate_sync_support /\ call.args.composite_sync_support
    /\ call.args.sync_on_green /\ out.ok /\ out.bytes = <<127>>

\* the aspect-ratio code of width : height, for every resolution of the ratio
aspect_ratio_code(width, height) ==
    CASE width = height -> 0
      [] width * 4 = height * 5 -> 1
      [] width * 3 = height * 4 -> 2
      [] width * 9 = height * 15 -> 3
      [] width * 9 = height * 16 -> 4
      [] width * 10 = height * 16 -> 5
      [] width * 27 = height * 64 -> 6
      [] width * 135 = height * 256 -> 7
      [] OTHER -> 8

\* bits 4..7 of the timing-options byte
option_bits(byte, d) ==
    /\ bit(byte, 4) = d.scanning_type
    /\ (byte \div 32) % 4 = d.stereo_3d
    /\ bit(byte, 7) = int(d.preferred)

\* C22: for every Type-VII descriptor the low 4 bits of the timing-options
\* byte (byte 3) are the aspect-ratio code of horizontal_active_pixels :
\* vertical_active_pixels, 0 for 1:1, 1 for 5:4, 2 for 4:3, 3 for 15:9, 4 for
\* 16:9, 5 for 16:10, 6 for 64:27, 7 for 256:135, for every resolution of that
\* ratio, and 8 for every other ratio; bit 4 is the scanning type, bits 5-6
\* the stereo-3D mode and bit 7 the preferred flag.
C22_TimingOptions ==
    (blk_read /\ blk.cls = "Descriptor" /\ out.ok)
        => /\ out.bytes[4] % 16 = aspect_ratio_code(blk.horizontal_active_pixels, blk.vertical_active_pixels)
           /\ option_bits(out.bytes[4], blk)

\* C22, where it fails: 1920x1200 is 16:10 and is read with code 8, custom
C22_SixteenToTenReadCustom ==
    /\ blk_read /\ blk.cls = "Descriptor" /\ out.ok
    /\ blk.horizontal_active_pixels = 1920 /\ blk.vertical_active_pixels = 1200
    /\ out.bytes[4] % 16 = 8

\* C22, where it fails: 1280x768 is 15:9 and is read with code 8, custom
C22_FifteenToNineReadCustom ==
    /\ blk_read /\ blk.cls = "Descriptor" /\ out.ok
    /\ blk.horizontal_active_pixels = 1280 /\ blk.vertical_active_pixels = 768
    /\ out.bytes[4] % 16 = 8

\* C22 without the two ratios the table holds unreduced: the code of every
\* other ratio, and bits 4..7 of every descriptor
C22_ReducedRatiosAndOptions ==
    (blk_read /\ blk.cls = "Descriptor" /\ out.ok)
        => /\ aspect_ratio_code(blk.horizontal_active_pixels, blk.vertical_active_pixels) \notin {3, 5}
                  => out.bytes[4] % 16
                         = aspect_ratio_code(blk.horizontal_active_pixels, blk.vertical_active_pixels)
           /\ option_bits(out.bytes[4], blk)

\* the 16-bit little-endian field at offset o of a serialization (b is
\* indexed from 1)
little_endian_16(b, o) == b[o + 1] + 256 * b[o + 2]

\* both front porches of a descriptor fit 15 bits
porches_fit(d) == d.horizontal_front_porch \in 0..32767 /\ d.vertical_front_porch \in 0..32767

\* C23: for every Type-VII descriptor accepted by construction (every front
\* porch 0..32767, either polarity) the descriptor serializes, bit 15 of the
\* little-endian horizontal_offset field (bytes 8-9) equals
\* horizontal_sync_positive and bit 15 of vertical_offset (bytes 16-17) equals
\* vertical_sync_positive.
C23_PolarityInBit15 ==
    (call.op = "new" /\ blk_read /\ blk.cls = "Descriptor" /\ porches_fit(blk))
        => /\ out.ok
           /\ bit(little_endian_16(out.bytes, 8), 15) = int(blk.horizontal_sync_positive)
           /\ bit(little_endian_16(out.bytes, 16), 15) = int(blk.vertical_sync_positive)

\* C23, where it fails: front porch 0 with negative polarity is accepted and
\* as_bytes raises OverflowError
C23_ZeroPorchRaises ==
    /\ call.op = "new" /\ blk_read /\ blk.cls = "Descriptor"
    /\ blk.horizontal_front_porch = 0 /\ ~blk.horizontal_sync_positive
    /\ ~out.ok /\ out.err = "OverflowError"

\* C23, where it fails: front porch 0 with positive polarity is read as FF 7F,
\* bit 15 clear
C23_ZeroPorchLosesPolarity ==
    /\ call.op = "new" /\ blk_read /\ blk.cls = "Descriptor"
    /\ blk.horizontal_front_porch = 0 /\ blk.horizontal_sync_positive
    /\ out.ok /\ little_endian_16(out.bytes, 8) = 32767

\* C23 for front porches 1..32767: the descriptor serializes, bit 15 is the
\* polarity and the low 15 bits are the front porch less one, whatever the
\* polarity
C23_PositivePorches ==
    (/\ call.op = "new" /\ blk_read /\ blk.cls = "Descriptor"
     /\ blk.horizontal_front_porch \in 1..32767 /\ blk.vertical_front_porch \in 1..32767)
        => /\ out.ok
           /\ bit(little_endian_16(out.bytes, 8), 15) = int(blk.horizontal_sync_positive)
           /\ bit(little_endian_16(out.bytes, 16), 15) = int(blk.vertical_sync_positive)
           /\ little_endian_16(out.bytes, 8) % 32768 = blk.horizontal_front_porch - 1
           /\ little_endian_16(out.bytes, 16) % 32768 = blk.vertical_front_porch - 1

(***************************************************************************)
(* Properties of the DisplayId section                                     *)
(***************************************************************************)
\* as_bytes of the DisplayId has been read since it was last assigned to
did_read == did.cls = "DisplayId" /\ reads.did # <<>>

\* the offset of length_of_block in the layout of the section
length_offset(d) == IF d.section_type = "EDID_EXTENSION_BLOCK" THEN 2 ELSE 1

\* C24: for every constructed DisplayId, standalone or embedded as an EDID
\* extension, the serialized length_of_block byte equals the number of bytes
\* its data_blocks serialize to.
C24_LengthIsPayload ==
    (call.op = "DisplayId" /\ did_read)
        => \A r \in {reads.did[Len(reads.did)]} :
               /\ r.ok
               /\ r.bytes[length_offset(did) + 1] = Len(data_bytes(did))

\* C24, where it fails: an embedded DisplayId whose one data block is 23
\* bytes is read with length_of_block 121
C24_EmbeddedLengthFixed ==
    /\ call.op = "DisplayId" /\ did_read /\ did.section_type = "EDID_EXTENSION_BLOCK"
    /\ Len(data_bytes(did)) = 23
    /\ reads.did[Len(reads.did)].ok /\ reads.did[Len(reads.did)].bytes[3] = 121

\* C24 in the standalone layouts, and embedded with a payload of 121 bytes
C24_StandaloneLengthIsPayload ==
    (/\ call.op = "DisplayId" /\ did_read
     /\ (did.section_type # "EDID_EXTENSION_BLOCK" \/ Len(data_bytes(did)) = 121))
        => \A r \in {reads.did[Len(reads.did)]} :
               /\ r.ok
               /\ r.bytes[length_offset(did) + 1] = Len(data_bytes(did))

\* C24, the standalone case read: two data blocks of 23 and 43 bytes, length 66
C24_StandaloneLengthRead ==
    /\ call.op = "DisplayId" /\ did_read /\ did.section_type = "BASE_SECTION"
    /\ Len(did.data_blocks) = 2
    /\ reads.did[Len(reads.did)].ok /\ reads.did[Len(reads.did)].bytes[2] = 66

(***************************************************************************)
(* Properties of the standard timings of a BaseEDID                        *)
(***************************************************************************)
\* as_bytes of the BaseEDID has been read since it was last assigned to
edid_read == edid.cls = "BaseEDID" /\ reads.edid # <<>>

\* bytes [38, 54) of b: the k timings given, in their order, then 01 01 in
\* every slot left
timing_slots(b, given) ==
    /\ \A i \in 1..Len(given) : slice(b, 38 + 2 * (i - 1), 38 + 2 * i) = as_bytes(given[i]).bytes
    /\ \A i \in (Len(given) + 1)..8 : slice(b, 38 + 2 * (i - 1), 38 + 2 * i) = <<1, 1>>

\* C25: for a BaseEDID constructed with k standard timings (1 <= k <= 8),
\* bytes [38, 38+2k) are the serializations of the supplied timings in their
\* order and every remaining 2-byte slot up to byte 54 holds the empty
\* sentinel timing (256 px, 16:10, 61 Hz), which serializes to 01 01.
C25_TimingSlots ==
    (call.op = "BaseEDID" /\ edid_read)
        => \A r \in {reads.edid[Len(reads.edid)]} :
               /\ r.ok
               /\ timing_slots(r.bytes, call.args.standard_timings.items)
               /\ as_bytes(StandardTiming_empty).bytes = <<1, 1>>

\* C25, where it fails: the BaseEDID built with one timing whose checksum is
\* stored as 256 gives no bytes
C25_OneTimingNoBytes ==
    /\ call.op = "BaseEDID" /\ edid_read /\ Len(call.args.standard_timings.items) = 1
    /\ edid.checksum = 256
    /\ ~reads.edid[Len(reads.edid)].ok /\ reads.edid[Len(reads.edid)].err = "OverflowError"

\* C25 for every BaseEDID whose as_bytes returns
C25_SlotsWhenSerialized ==
    (call.op = "BaseEDID" /\ edid_read)
        => \A r \in {reads.edid[Len(reads.edid)]} :
               r.ok => /\ timing_slots(r.bytes, call.args.standard_timings.items)
                       /\ as_bytes(StandardTiming_empty).bytes = <<1, 1>>

\* C25, its case: three timings given, read as C1 C0, 81 40, C1 C0 and five
\* times 01 01
C25_ThreeTimingsRead ==
    /\ call.op = "BaseEDID" /\ edid_read /\ Len(call.args.standard_timings.items) = 3
    /\ reads.edid[Len(reads.edid)].ok
    /\ slice(reads.edid[Len(reads.edid)].bytes, 38, 54)
           = <<193, 192, 129, 64, 193, 192, 1, 1, 1, 1, 1, 1, 1, 1, 1, 1>>

(***************************************************************************)
(* C26: byte 17 of the detailed timing descriptor                          *)
(***************************************************************************)
\* the sync type in bits 4-3 of the features byte
sync_type(s) ==
    CASE s.cls = "AnalogueSync" -> s.bipolar
      [] s.cls = "DigitalSync" -> 2
      [] OTHER -> 3

feature_triples ==
    {<<il, stereo, s>> : il \in BOOLEAN, stereo \in StereoMode, s \in SyncCalls}

\* the triples whose features byte is the given one
triples_of(byte) ==
    {t \in feature_triples :
        features([interlaced |-> t[1], stereo |-> t[2], sync |-> t[3]]) = Ok(<<byte>>)}

\* C26: for every interlace flag, stereo mode and sync variant the
\* DetailedTimingDescriptor is constructed and serializes to 18 bytes, byte
\* 17 fits in one byte, no other triple gives the same byte 17 and bits 4-3
\* of it are the sync type.
C26_FeaturesRecoverable ==
    (call.op = "new" /\ call.args.cls = "DetailedTimingDescriptor") =>
        /\ blk = call.args
        /\ blk_read =>
            /\ out.ok /\ Len(out.bytes) = 18 /\ out.bytes[18] \in 0..255
            /\ triples_of(out.bytes[18]) = {<<blk.interlaced, blk.stereo, blk.sync>>}
            /\ (out.bytes[18] \div 8) % 4 = sync_type(blk.sync)

\* AnalogueSync(...) raises before a descriptor can be built
C26_AnalogueSyncRaises ==
    /\ call.op = "new" /\ call.args.cls = "DetailedTimingDescriptor"
    /\ call.args.sync.cls = "AnalogueSync"
    /\ blk.cls = "None" /\ err = "AttributeError"

\* a descriptor with a DigitalSync does not serialize
C26_DigitalSyncRaises ==
    /\ blk.cls = "DetailedTimingDescriptor" /\ blk.sync.cls = "DigitalSync"
    /\ blk_read /\ out.err = "AttributeError"

\* interlaced with INTERLEAVED_LEFT: 128 + 128 + sync does not fit a byte
C26_InterlacedStereoOverflows ==
    /\ blk.cls = "DetailedTimingDescriptor" /\ blk.sync.cls = "DigitalSeparateSync"
    /\ blk.interlaced /\ blk.stereo = 4
    /\ blk_read /\ out.err = "OverflowError"

\* not interlaced with INTERLEAVED_LEFT reads as interlaced with NONE
C26_StereoReadAsInterlace ==
    /\ blk.cls = "DetailedTimingDescriptor" /\ blk.sync.cls = "DigitalSeparateSync"
    /\ ~blk.interlaced /\ blk.stereo = 4
    /\ blk_read /\ out.ok
    /\ <<TRUE, 0, blk.sync>> \in triples_of(out.bytes[18])

\* with a DigitalSeparateSync and a stereo mode of two bits the byte is
\* interlace, stereo mode, sync type 3 and the two polarities, each in bits
\* of its own
C26_SeparateSyncTwoBitStereo ==
    (/\ blk.cls = "DetailedTimingDescriptor" /\ blk.sync.cls = "DigitalSeparateSync"
     /\ blk.stereo <= 3 /\ blk_read) =>
        /\ out.ok /\ Len(out.bytes) = 18
        /\ bit(out.bytes[18], 7) = (IF blk.interlaced THEN 1 ELSE 0)
        /\ (out.bytes[18] \div 32) % 4 = blk.stereo
        /\ (out.bytes[18] \div 8) % 4 = 3
        /\ bit(out.bytes[18], 2) = blk.sync.positive_vert_sync_polarity
        /\ bit(out.bytes[18], 1) = blk.sync.positive_hor_sync_polarity
        /\ bit(out.bytes[18], 0) = 0

C26_InterlacedRightRead ==
    /\ blk.cls = "DetailedTimingDescriptor" /\ call.args = blk
    /\ blk.interlaced /\ blk.stereo = 3 /\ blk.sync = DigitalSeparateSync(1, 0)
    /\ blk_read /\ out.ok /\ out.bytes[18] = 252

(***************************************************************************)
(* The DisplayId mutated and re-assigned several times                     *)
(***************************************************************************)
MaxReassignments == 2

\* the lists data_blocks is replaced with: none, two blocks in the order no
\* constructor call above has (66 bytes), the seven blocks of 121 bytes and
\* one block of MaxDescriptors descriptors
ReplacementInputs ==
    {<<>>, <<TypeVIIOf(2), TypeVIIOf(1)>>,
     [i \in 1..7 |-> IF i = 1 THEN TypeVIIOf(5) ELSE TypeVIIOf(0)],
     <<TypeVIIOf(MaxDescriptors)>>}

\* EdidProperty.__set__ of a list: no width check; block_size of the property
\* is read first, which serializes the items that are replaced
data_blocks_setter(d, value, items) ==
    IF \E i \in DOMAIN items : ~items[i].res.ok
    THEN [ok |-> FALSE, err |-> items[Min({i \in DOMAIN items : ~items[i].res.ok})].res.err, obj |-> d]
    ELSE [ok |-> TRUE, err |-> "", obj |-> [d EXCEPT !.data_blocks = value]]

\* display_id.data_blocks = value
DisplayId_set_data_blocks ==
    /\ did.cls = "DisplayId" /\ nmut < MaxReassignments
    /\ \E value \in ReplacementInputs :
        \E r \in {data_blocks_setter(did, value, data_block_items(did.data_blocks))} :
            /\ call' = [op |-> "data_blocks", args |-> value, passes |-> <<>>]
            /\ did' = r.obj /\ err' = r.err
            /\ nmut' = nmut + 1 /\ reads' = [reads EXCEPT !.did = <<>>]
            /\ UNCHANGED <<defaults, objs, blk, edid, out>>

\* display_id.section_type = value, any number of times up to MaxReassignments
DisplayId_set_section_type_again ==
    /\ did.cls = "DisplayId" /\ nmut < MaxReassignments
    /\ \E value \in SectionType : \E r \in {DisplayId_section_type_setter(did, value)} :
        /\ call' = [op |-> "section_type", args |-> value, passes |-> r.passes]
        /\ did' = r.obj /\ err' = r.err
        /\ nmut' = nmut + 1 /\ reads' = [reads EXCEPT !.did = <<>>]
        /\ UNCHANGED <<defaults, objs, blk, edid, out>>

NextRetrigger ==
    \/ DisplayId_new \/ DisplayId_set_data_blocks \/ DisplayId_set_section_type_again
    \/ did_as_bytes

SpecRetrigger == Init /\ [][NextRetrigger]_vars

\* the last as_bytes read of the DisplayId
last_read == reads.did[Len(reads.did)]

\* 128 bytes, bytes 1..126 and all 128 each summing to 0 modulo 256
extension_block_sums(b) ==
    /\ Len(b) = 128
    /\ sum(SubSeq(b, 2, 127)) % 256 = 0
    /\ sum(b) % 256 = 0

\* section_type = EDID_EXTENSION_BLOCK was the last assignment and the
\* payload is at most 121 bytes
reassigned_embedded ==
    /\ did.cls = "DisplayId"
    /\ call.op = "section_type" /\ call.args = "EDID_EXTENSION_BLOCK"
    /\ Len(data_bytes(did)) <= 121

retrigger_checksums ==
    reassigned_embedded =>
        /\ err = ""
        /\ did_read => last_read.ok /\ extension_block_sums(last_read.bytes)

\* EDID_EXTENSION_BLOCK is assigned to an embedded DisplayId that has not
\* been assigned to since it was made embedded
reassign_unmutated ==
    /\ did.cls = "DisplayId" /\ did.section_type = "EDID_EXTENSION_BLOCK"
    /\ \/ call.op = "DisplayId"
       \/ call.op = "section_type" /\ call.args = "EDID_EXTENSION_BLOCK" /\ err = ""
    /\ call'.op = "section_type" /\ call'.args = "EDID_EXTENSION_BLOCK" /\ nmut' = nmut + 1

reassign_keeps_bytes ==
    reassign_unmutated =>
        /\ err' = ""
        /\ DisplayId_as_bytes(did') = DisplayId_as_bytes(did)

\* C27: whatever was assigned before, once section_type =
\* EDID_EXTENSION_BLOCK is assigned with a payload of at most 121 bytes the
\* assignment does not raise and as_bytes is 128 bytes with bytes 1..126 and
\* all 128 summing to 0 modulo 256; and assigning EDID_EXTENSION_BLOCK to an
\* embedded DisplayId with no mutation in between leaves as_bytes as it was.
C27_RetriggerWorks == [](retrigger_checksums) /\ [][reassign_keeps_bytes]_vars

\* data_blocks was replaced (by the two blocks no constructor call has),
\* EDID_EXTENSION_BLOCK assigned again and as_bytes read with both sums 0
C27_ReplacedThenReassigned ==
    /\ reassigned_embedded /\ nmut = MaxReassignments
    /\ did.init_section_type = "EDID_EXTENSION_BLOCK"
    /\ did.data_blocks = <<TypeVIIOf(2), TypeVIIOf(1)>>
    /\ did_read /\ last_read.ok /\ extension_block_sums(last_read.bytes)
    /\ slice(last_read.bytes, 5, 71) = data_bytes(did)

\* before the re-assignment the replaced payload is read under the checksum
\* of the payload it replaced
C27_StaleBeforeReassign ==
    /\ did.cls = "DisplayId" /\ did.section_type = "EDID_EXTENSION_BLOCK"
    /\ call.op = "data_blocks" /\ did.data_blocks = <<TypeVIIOf(2), TypeVIIOf(1)>>
    /\ did_read /\ last_read.ok /\ ~extension_block_sums(last_read.bytes)

\* an embedded DisplayId re-assigned EDID_EXTENSION_BLOCK straight after its
\* construction and read
C27_ReassignedUnmutated ==
    /\ reassigned_embedded /\ nmut = 1 /\ err = ""
    /\ did.init_section_type = "EDID_EXTENSION_BLOCK"
    /\ did_read /\ last_read.ok /\ extension_block_sums(last_read.bytes)

(***************************************************************************)
(* C28: the list of standard timings the caller passed                     *)
(***************************************************************************)
\* the list object passed as standard_timings is the one the BaseEDID holds
\* (self._standard_timings = standard_timings), so what the caller sees in
\* its list is edid.standard_timings
caller_list_held ==
    call.op = "BaseEDID" /\ edid.cls = "BaseEDID" /\ call.args.standard_timings.is_list

\* C28: once a BaseEDID is constructed from a list of standard timings, and
\* through every as_bytes and every data_at_position after it, the caller's
\* list has the length and the elements it had when it was passed.
C28_CallerListUnchanged ==
    caller_list_held => edid.standard_timings = call.args.standard_timings.items

\* a list of one timing holds eight once the constructor has returned: the
\* timing passed and seven times StandardTiming.empty()
C28_CallerListPadded ==
    /\ caller_list_held /\ out = Raise("unset")
    /\ Len(call.args.standard_timings.items) = 1
    /\ Len(edid.standard_timings) = 8
    /\ edid.standard_timings[1] = call.args.standard_timings.items[1]
    /\ \A i \in 2..8 : edid.standard_timings[i] = StandardTiming_empty

\* the elements passed stay first and in their order, what is added is
\* StandardTiming.empty() up to eight, and a list of eight is left as it was
C28_CallerListExtended ==
    caller_list_held =>
        \A given \in {call.args.standard_timings.items} :
            /\ Len(edid.standard_timings) = 8
            /\ SubSeq(edid.standard_timings, 1, Len(given)) = given
            /\ \A i \in (Len(given) + 1)..8 : edid.standard_timings[i] = StandardTiming_empty

\* a list of eight timings after construction and a lookup
C28_EightTimingsLookedUp ==
    /\ caller_list_held /\ looked_up
    /\ Len(call.args.standard_timings.items) = 8
    /\ edid.standard_timings = call.args.standard_timings.items

(***************************************************************************)
(* C29: integers assigned to the fields of a Type-VII descriptor           *)
(***************************************************************************)
\* the last call assigned to a field of the descriptor
field_set == blk.cls = "Descriptor" /\ call.op = "set"

\* the integers the claim says are accepted: 1..65536 in a 16-bit field
\* stored as value - 1, 1..16777216 in the pixel clock
encodable(field, value) ==
    IF AssignedFields[field] = 2 THEN value \in 1..65536 ELSE value \in 1..16777216

set_rejected_unchanged ==
    (field_set /\ call.raised # "") =>
        /\ call.raised = "AssertionError"
        /\ blk = call.before
        /\ blk_read => out = structure_as_bytes(call.before)

\* C29: an integer assigned to a field of the descriptor is accepted exactly
\* when it is one the field can hold (1..65536 for a 16-bit field stored as
\* value - 1, 1..16777216 for the pixel clock); a rejected assignment raises
\* and leaves the stored value and the serialized bytes as they were, an
\* accepted one is stored and serializes without error.
C29_AcceptedIffEncodable ==
    field_set =>
        /\ (call.raised = "") <=> encodable(call.args.field, call.args.value)
        /\ set_rejected_unchanged
        /\ (call.raised = "" /\ blk_read /\ structure_as_bytes(call.before).ok) => out.ok

\* horizontal_blank_pixels = 0 is accepted and the descriptor, which
\* serialized before, no longer does
C29_ZeroAcceptedNotSerialized ==
    /\ field_set /\ call.args = [field |-> "horizontal_blank_pixels", value |-> 0]
    /\ call.raised = "" /\ blk.horizontal_blank_pixels = 0
    /\ structure_as_bytes(call.before).ok
    /\ blk_read /\ out.err = "OverflowError"

\* horizontal_blank_pixels = 65536 is rejected although 65535 fits two bytes
C29_TopOfRangeRejected ==
    /\ field_set /\ call.args = [field |-> "horizontal_blank_pixels", value |-> 65536]
    /\ call.raised = "AssertionError" /\ pixel_byte_conversion(65536) = Ok(<<255, 255>>)

\* pixel_clock = 16777216 is rejected and pixel_clock = 0 accepted
C29_PixelClockTopRejected ==
    /\ field_set /\ call.args = [field |-> "pixel_clock", value |-> 16777216]
    /\ call.raised = "AssertionError" /\ pixel_clock_conversion(16777216) = Ok(<<255, 255, 255>>)

\* what the assignment does: it accepts by the bytes of the magnitude,
\* (bit_length + 7) // 8 <= width; a rejected assignment leaves the value and
\* the bytes as they were; an accepted value is stored, and serializes when
\* it is 1 or more (any accepted value in the pixel clock)
C29_AcceptedByBitLength ==
    field_set =>
        /\ (call.raised = "") <=> (bit_length(call.args.value) + 7) \div 8 <= AssignedFields[call.args.field]
        /\ set_rejected_unchanged
        /\ (call.raised = "") => blk[call.args.field] = call.args.value
        /\ (/\ call.raised = "" /\ blk_read /\ structure_as_bytes(call.before).ok
            /\ (call.args.value >= 1 \/ call.args.field = "pixel_clock")) => out.ok

\* a rejected assignment read: the bytes are those before it
C29_RejectedRead ==
    /\ field_set /\ call.raised = "AssertionError" /\ call.args.value = 65536
    /\ blk_read /\ out.ok /\ out = structure_as_bytes(call.before)

\* an accepted assignment read: vertical_sync_width = 65535 is FE FF
C29_AcceptedRead ==
    /\ field_set /\ call.raised = "" /\ call.args = [field |-> "vertical_sync_width", value |-> 65535]
    /\ blk_read /\ out.ok /\ slice(out.bytes, 18, 20) = <<254, 255>>

(***************************************************************************)
(* C30: the offset flags of the monitor range limits                       *)
(***************************************************************************)
range_limits_read == blk_read /\ blk.cls = "MonitorRangeLimits"

\* the byte the four flags are to make: bits 3, 2, 1 and 0
offset_flags(m) ==
    m.hor_offset_max * 8 + m.hor_offset_min * 4 + m.vert_offset_max * 2 + m.vert_offset_min

\* C30: for every MonitorRangeLimits with the four offset flags each 0 or 1
\* the descriptor serializes and byte 4 is hor_offset_max * 8 +
\* hor_offset_min * 4 + vert_offset_max * 2 + vert_offset_min, so that each
\* flag is the bit 3, 2, 1 or 0 of the byte.
C30_OffsetFlagsInByte4 ==
    range_limits_read =>
        /\ out.ok
        /\ out.bytes[5] = offset_flags(blk)
        /\ bit(out.bytes[5], 3) = blk.hor_offset_max /\ bit(out.bytes[5], 2) = blk.hor_offset_min
        /\ bit(out.bytes[5], 1) = blk.vert_offset_max /\ bit(out.bytes[5], 0) = blk.vert_offset_min

\* hor_offset_max alone is read as 40, bit 6
C30_FlagReadShifted ==
    /\ range_limits_read /\ offset_flags(blk) = 8
    /\ out.ok /\ out.bytes[5] = 64

\* the three low flags without hor_offset_max are read as 0
C30_LowFlagsLost ==
    /\ range_limits_read /\ offset_flags(blk) = 7
    /\ out.ok /\ out.bytes[5] = 0

\* all four flags set: 1 << 9 does not fit the byte
C30_FlagsOverflow ==
    /\ range_limits_read /\ offset_flags(blk) = 15
    /\ out.err = "OverflowError"

\* what byte 4 is: hor_offset_max shifted left by 6 and once more for every
\* other flag set, 0 when hor_offset_max is 0; the descriptor with the
\* default frequencies serializes exactly when that fits one byte
C30_ShiftedByFlags ==
    (range_limits_read /\ blk.hor_freq_max <= 255) =>
        \A shifted \in {blk.hor_offset_max
                        * pow(2, 6 + blk.hor_offset_min + blk.vert_offset_max + blk.vert_offset_min)} :
            /\ out.ok <=> shifted <= 255
            /\ out.ok => out.bytes[5] = shifted
            /\ (out.ok /\ offset_flags(blk) = 0) => out.bytes[5] = offset_flags(blk)

========================================================================
